---------------------------- MODULE Spec2Model ----------------------------
(***************************************************************************)
(* Solar project-finance cashflow engine (src/model).                      *)
(*                                                                         *)
(* Every quantity of the Python code is a float; here it is an integer and *)
(* the input sets are chosen so that the quotients the code forms are      *)
(* whole numbers (principal a multiple of the tenor, money a multiple of   *)
(* 100 where a percentage is applied, ...).  On those inputs the integer   *)
(* arithmetic below is the real-number arithmetic of the source.           *)
(* Percentages stay in the unit of the configuration file (30 for 30%);    *)
(* the code's  x * (pct / 100.0)  is  Pct(x, pct).                         *)
(* In the whole run() pipeline (Spec) a few quotients are not whole (tax   *)
(* on odd incomes, subscriber fees); those are rounded down.  Rates in     *)
(* $/kWh are in cents, rates in basis points stay basis points.            *)
(*                                                                         *)
(* A DataFrame is a function from column name to column; a column is a     *)
(* function from the period index 0..n-1 to its value.                     *)
(***************************************************************************)
EXTENDS Integers, Sequences, FiniteSets, TLC

VARIABLES
    inputs,                        \* the validated configuration record
    pc,                            \* position in the code being run
    depreciable_basis_before_itc,  \* run(): argument of calculate_itc
    upfront_grants,                \* run(): argument of calculate_itc
    itc_amount,                    \* run(): first result of calculate_itc
    depreciable_basis_after_itc,   \* run(): second result of calculate_itc
    cashflow_df,                   \* run(): the merged table
    total_months,                  \* run(): len(energy_df)
    debt_principal,                \* run(): result of size_debt
    debt_df,                       \* run(): result of calculate_debt_service
    energy_df,                     \* run(): the period grid and its columns
    capex_df,                      \* run(): result of create_capex_schedule
    grants_timing,                 \* run(): second result of get_upfront_grants
    depreciation_df,               \* run(): result of calculate_depreciation
    idc_amount,                    \* run(): result of calculate_idc
    reserves_df,                   \* run(): result of calculate_reserves
    metrics                        \* run(): result of calculate_all_metrics

itcLocals == <<depreciable_basis_before_itc, upfront_grants, itc_amount,
               depreciable_basis_after_itc>>

debtLocals == <<total_months, debt_principal, debt_df>>

runLocals == <<capex_df, grants_timing, depreciation_df, idc_amount,
               reserves_df, metrics>>

vars == <<inputs, pc, itcLocals, cashflow_df, debtLocals, energy_df, runLocals>>

(***************************************************************************)
(* Arithmetic helpers                                                      *)
(***************************************************************************)
\* x * pct / 100, formed without the product x * pct
Pct(x, pct) == (x \div 100) * pct + ((x % 100) * pct) \div 100

Min(a, b) == IF a <= b THEN a ELSE b

Abs(x) == IF x < 0 THEN -x ELSE x

Rows(n) == 0 .. (n - 1)

NoFrame == <<>>

NoItcLocals ==
    /\ depreciable_basis_before_itc = 0
    /\ upfront_grants = 0
    /\ itc_amount = 0
    /\ depreciable_basis_after_itc = 0

NoDebtLocals ==
    /\ total_months = 0
    /\ debt_principal = 0
    /\ debt_df = NoFrame

NoRunLocals ==
    /\ capex_df = NoFrame
    /\ grants_timing = "COD"
    /\ depreciation_df = NoFrame
    /\ idc_amount = 0
    /\ reserves_df = NoFrame
    /\ metrics = NoFrame

RECURSIVE SumTo(_, _)
SumTo(col, n) == IF n <= 0 THEN 0 ELSE col[n - 1] + SumTo(col, n - 1)

SumCol(col) == SumTo(col, Cardinality(DOMAIN col))

RECURSIVE Pow(_, _)
Pow(b, e) == IF e <= 0 THEN 1 ELSE b * Pow(b, e - 1)

(***************************************************************************)
(* Bounds of the explored input space                                      *)
(***************************************************************************)
MaxBasisUnits == 2

MaxTaxPeriods == 4

MaxConstructionMonths == 2

MaxModelYears == 2

MaxPrincipalUnits == 2

(***************************************************************************)
(* TaxModel.calculate_itc                                                  *)
(***************************************************************************)
TaxCreditModes == {"ITC", "PTC", "None"}

ItcBasis_GrantsAlways(tax_credits, depreciable_basis, grants) ==
    depreciable_basis - grants

ItcBasis(tax_credits, depreciable_basis, grants) ==
    IF grants > 0 /\ tax_credits.reduce_itc_basis_for_grants
    THEN depreciable_basis - grants
    ELSE depreciable_basis

ReducedBasis_FromItcBasis(tax_credits, depreciable_basis, itc_basis, amount) ==
    itc_basis - Pct(amount, tax_credits.basis_reduction_pct)

ReducedBasis(tax_credits, depreciable_basis, itc_basis, amount) ==
    depreciable_basis - Pct(amount, tax_credits.basis_reduction_pct)

calculate_itc(tax_credits, depreciable_basis, grants) ==
    IF tax_credits.mode # "ITC"
    THEN <<0, depreciable_basis>>
    ELSE LET itc_basis == ItcBasis(tax_credits, depreciable_basis, grants)
             total_itc_pct == tax_credits.itc_pct + tax_credits.adders_pct
             amount == Pct(itc_basis, total_itc_pct)
         IN  <<amount,
               ReducedBasis(tax_credits, depreciable_basis, itc_basis, amount)>>

ItcTaxCredits ==
    [mode : TaxCreditModes,
     itc_pct : {0, 30},
     adders_pct : {0, 10},
     basis_reduction_pct : {0, 50, 100},
     reduce_itc_basis_for_grants : BOOLEAN]

ItcBases == {k * 5000000 : k \in 0 .. MaxBasisUnits}

ItcGrants == {0, 500000}

InitItc ==
    /\ inputs \in [tax_credits : ItcTaxCredits]
    /\ pc = "calculate_itc"
    /\ depreciable_basis_before_itc \in ItcBases
    /\ upfront_grants \in ItcGrants
    /\ itc_amount = 0
    /\ depreciable_basis_after_itc = 0
    /\ cashflow_df = NoFrame
    /\ NoDebtLocals
    /\ energy_df = NoFrame
    /\ NoRunLocals

CallCalculateItc ==
    /\ pc = "calculate_itc"
    /\ LET r == calculate_itc(inputs.tax_credits,
                              depreciable_basis_before_itc, upfront_grants)
       IN  /\ itc_amount' = r[1]
           /\ depreciable_basis_after_itc' = r[2]
    /\ pc' = "itc_returned"
    /\ UNCHANGED <<inputs, depreciable_basis_before_itc, upfront_grants,
                   cashflow_df, debtLocals, energy_df,
                   runLocals>>

NextItc == CallCalculateItc

SpecItc == InitItc /\ [][NextItc]_vars

(***************************************************************************)
(* TaxModel.calculate_taxes                                                *)
(***************************************************************************)
TaxableAfterNol_Gross(taxable_income, nol_used) == taxable_income

TaxableAfterNol(taxable_income, nol_used) == taxable_income - nol_used

LossRow_Refund(taxes, nol_balance, taxable_income) ==
    [nol_balance |-> nol_balance + Abs(taxable_income),
     federal_tax |-> Pct(taxable_income, taxes.federal_tax_rate_pct),
     state_tax |-> Pct(taxable_income, taxes.state_tax_rate_pct),
     nol_utilized |-> 0]

LossRow(taxes, nol_balance, taxable_income) ==
    [nol_balance |-> nol_balance + Abs(taxable_income),
     federal_tax |-> 0,
     state_tax |-> 0,
     nol_utilized |-> 0]

IncomeRow_NolExpires(taxes, nol_balance, taxable_income) ==
    LET usable == IF taxes.nol_carryforward_years > 0 THEN nol_balance ELSE 0
        nol_used == IF usable > 0 THEN Min(usable, taxable_income) ELSE 0
        taxable_after_nol == TaxableAfterNol(taxable_income, nol_used)
    IN  [nol_balance |-> usable - nol_used,
         federal_tax |-> Pct(taxable_after_nol, taxes.federal_tax_rate_pct),
         state_tax |-> Pct(taxable_after_nol, taxes.state_tax_rate_pct),
         nol_utilized |-> nol_used]

IncomeRow(taxes, nol_balance, taxable_income) ==
    LET nol_used == IF nol_balance > 0
                    THEN Min(nol_balance, taxable_income)
                    ELSE 0
        taxable_after_nol == TaxableAfterNol(taxable_income, nol_used)
    IN  [nol_balance |-> IF nol_balance > 0
                         THEN nol_balance - nol_used
                         ELSE nol_balance,
         federal_tax |-> Pct(taxable_after_nol, taxes.federal_tax_rate_pct),
         state_tax |-> Pct(taxable_after_nol, taxes.state_tax_rate_pct),
         nol_utilized |-> nol_used]

TaxRow(taxes, nol_balance, taxable_income) ==
    IF taxable_income < 0
    THEN LossRow(taxes, nol_balance, taxable_income)
    ELSE IncomeRow(taxes, nol_balance, taxable_income)

calculate_taxes(taxes, df) ==
    LET ti == df["taxable_income"]
        n == Cardinality(DOMAIN ti)
        scan[t \in Rows(n)] ==
            TaxRow(taxes, IF t = 0 THEN 0 ELSE scan[t - 1].nol_balance, ti[t])
    IN  [c \in (DOMAIN df) \cup {"federal_tax", "state_tax", "total_tax",
                                 "nol_utilized", "nol_balance"} |->
            CASE c = "federal_tax" -> [t \in Rows(n) |-> scan[t].federal_tax]
              [] c = "state_tax" -> [t \in Rows(n) |-> scan[t].state_tax]
              [] c = "total_tax" ->
                    [t \in Rows(n) |-> scan[t].federal_tax + scan[t].state_tax]
              [] c = "nol_utilized" -> [t \in Rows(n) |-> scan[t].nol_utilized]
              [] c = "nol_balance" -> [t \in Rows(n) |-> scan[t].nol_balance]
              [] OTHER -> df[c]]

TaxableIncomes == {-200, -100, 0, 100, 300}

TaxRates ==
    [federal_tax_rate_pct : {0, 21},
     state_tax_rate_pct : {0, 6},
     nol_carryforward_years : {0, 1, 20}]

InitTax ==
    /\ inputs \in [taxes : TaxRates]
    /\ pc = "calculate_taxes"
    /\ \E n \in 0 .. MaxTaxPeriods :
          \E ti \in [Rows(n) -> TaxableIncomes] :
             cashflow_df = [c \in {"taxable_income"} |-> ti]
    /\ NoItcLocals
    /\ NoDebtLocals
    /\ energy_df = NoFrame
    /\ NoRunLocals

CallCalculateTaxes ==
    /\ pc = "calculate_taxes"
    /\ cashflow_df' = calculate_taxes(inputs.taxes, cashflow_df)
    /\ pc' = "taxes_returned"
    /\ UNCHANGED <<inputs, itcLocals, debtLocals, energy_df,
                   runLocals>>

NextTax == CallCalculateTaxes

SpecTax == InitTax /\ [][NextTax]_vars

(***************************************************************************)
(* DebtModel.calculate_debt_service                                        *)
(*                                                                         *)
(* interest_rate_pct is a multiple of 1200, so the monthly rate            *)
(* interest_rate_pct / 100 / 12 is a whole number, and the principal is a  *)
(* multiple of 24 * ((1 + 1)^12 - 1): the annuity payment and the equal    *)
(* principal instalments are then whole numbers.                           *)
(***************************************************************************)
InterestRateMonthly(financing) == financing.interest_rate_pct \div 1200

TenorMonths(financing) == financing.tenor_years * 12

LevelPayment(financing, principal_amount) ==
    LET r == InterestRateMonthly(financing)
        n == TenorMonths(financing)
    IN  IF r > 0
        THEN (principal_amount * (r * Pow(1 + r, n))) \div (Pow(1 + r, n) - 1)
        ELSE principal_amount \div n

LevelPrincipal_WholePayment(payment, interest) == payment

LevelPrincipal(payment, interest) == payment - interest

PrincipalDue(financing, principal_amount, interest) ==
    CASE financing.amortization = "level" ->
            LevelPrincipal(LevelPayment(financing, principal_amount), interest)
      [] financing.amortization = "sculpted" ->
            principal_amount \div TenorMonths(financing)
      [] OTHER ->
            principal_amount \div TenorMonths(financing)

ConstructionDebtRow(current_balance) ==
    [current_balance |-> current_balance,
     debt_balance |-> current_balance,
     interest_payment |-> 0,
     principal_payment |-> 0]

ServiceDebtRow(financing, principal_amount, current_balance) ==
    LET interest == current_balance * InterestRateMonthly(financing)
        principal == PrincipalDue(financing, principal_amount, interest)
    IN  [current_balance |-> current_balance - principal,
         debt_balance |-> current_balance - principal,
         interest_payment |-> interest,
         principal_payment |-> principal]

PaidOffDebtRow_KeepsBalance(current_balance) ==
    [current_balance |-> current_balance,
     debt_balance |-> current_balance,
     interest_payment |-> 0,
     principal_payment |-> 0]

PaidOffDebtRow(current_balance) ==
    [current_balance |-> current_balance,
     debt_balance |-> 0,
     interest_payment |-> 0,
     principal_payment |-> 0]

DebtRow(financing, construction_months, principal_amount, balance, period) ==
    IF period < construction_months
    THEN ConstructionDebtRow(balance)
    ELSE IF period - construction_months < TenorMonths(financing)
         THEN ServiceDebtRow(financing, principal_amount, balance)
         ELSE PaidOffDebtRow(balance)

DebtFrame(n, balance, interest, principal) ==
    [c \in {"period", "debt_balance", "interest_payment", "principal_payment",
            "total_debt_service"} |->
        CASE c = "period" -> [p \in Rows(n) |-> p]
          [] c = "debt_balance" -> [p \in Rows(n) |-> balance[p]]
          [] c = "interest_payment" -> [p \in Rows(n) |-> interest[p]]
          [] c = "principal_payment" -> [p \in Rows(n) |-> principal[p]]
          [] c = "total_debt_service" ->
                [p \in Rows(n) |-> interest[p] + principal[p]]]

calculate_debt_service(financing, construction_months, principal_amount, n) ==
    IF ~financing.use_debt \/ principal_amount <= 0
    THEN LET zero == [p \in Rows(n) |-> 0]
         IN  DebtFrame(n, zero, zero, zero)
    ELSE LET scan[p \in Rows(n)] ==
                 DebtRow(financing, construction_months, principal_amount,
                         IF p = 0 THEN principal_amount
                                  ELSE scan[p - 1].current_balance,
                         p)
         IN  DebtFrame(n,
                       [p \in Rows(n) |-> scan[p].debt_balance],
                       [p \in Rows(n) |-> scan[p].interest_payment],
                       [p \in Rows(n) |-> scan[p].principal_payment])

Amortizations == {"level", "sculpted", "bullet"}

DebtFinancing ==
    {f \in [use_debt : BOOLEAN,
            interest_rate_pct : {0, 1200},
            tenor_years : {0, 1, 2},
            amortization : Amortizations] :
        \* keeps (1 + r)^n below 2^31
        (f.amortization = "level" /\ f.interest_rate_pct > 0)
            => f.tenor_years <= 1}

DebtPrincipals == {k * 98280 : k \in 0 .. MaxPrincipalUnits}

InitDebt ==
    /\ inputs \in [financing : DebtFinancing,
                   project : [construction_months :
                                 0 .. MaxConstructionMonths]]
    /\ pc = "calculate_debt_service"
    /\ total_months \in 0 .. (MaxConstructionMonths + 12 * MaxModelYears)
    /\ debt_principal \in DebtPrincipals
    /\ debt_df = NoFrame
    /\ NoItcLocals
    /\ cashflow_df = NoFrame
    /\ energy_df = NoFrame
    /\ NoRunLocals

CallCalculateDebtService ==
    /\ pc = "calculate_debt_service"
    /\ debt_df' = calculate_debt_service(inputs.financing,
                                         inputs.project.construction_months,
                                         debt_principal, total_months)
    /\ pc' = "debt_service_returned"
    /\ UNCHANGED <<inputs, itcLocals, cashflow_df, total_months,
                   debt_principal, energy_df,
                   runLocals>>

NextDebt == CallCalculateDebtService

SpecDebt == InitDebt /\ [][NextDebt]_vars

(***************************************************************************)
(* DebtModel.calculate_debt_service: properties                            *)
(***************************************************************************)
DebtServiceCase ==
    /\ pc = "debt_service_returned"
    /\ inputs.financing.use_debt
    /\ debt_principal > 0

DebtEnd == inputs.project.construction_months + TenorMonths(inputs.financing)

\* C2: with debt enabled and principal > 0, for 'level' and 'sculpted'
\* amortization, debt_balance is never negative, equals the principal in
\* every construction period (no interest, no principal payment), does not
\* rise from the first operating period on, is zero from the last month of
\* the tenor on, and debt service is zero in every period after the tenor.
DebtBalanceShape ==
    (DebtServiceCase /\ inputs.financing.amortization \in {"level", "sculpted"})
    => \A p \in Rows(total_months) :
          LET cm == inputs.project.construction_months
              bal == debt_df["debt_balance"]
          IN  /\ bal[p] >= 0
              /\ p < cm => /\ bal[p] = debt_principal
                           /\ debt_df["interest_payment"][p] = 0
                           /\ debt_df["principal_payment"][p] = 0
              /\ p >= cm => bal[p] <= debt_principal
              /\ (p >= cm /\ p + 1 < total_months) => bal[p + 1] <= bal[p]
              /\ (p >= cm /\ p >= DebtEnd - 1) => bal[p] = 0
              /\ p >= DebtEnd => debt_df["total_debt_service"][p] = 0

DebtBalanceShapeWitness ==
    /\ DebtServiceCase
    /\ inputs.financing.amortization = "level"
    /\ inputs.financing.interest_rate_pct > 0
    /\ inputs.financing.tenor_years = 1
    /\ inputs.project.construction_months = 2
    /\ total_months > DebtEnd
    /\ debt_df["debt_balance"][1] = debt_principal
    /\ debt_df["debt_balance"][2] < debt_principal
    /\ debt_df["debt_balance"][DebtEnd - 2] > 0
    /\ debt_df["debt_balance"][DebtEnd - 1] = 0
    /\ debt_df["total_debt_service"][DebtEnd - 1] > 0
    /\ debt_df["total_debt_service"][DebtEnd] = 0

\* C3 as stated: for every tenor and every horizon, the principal payments
\* of a schedule with principal > 0 add up to the original principal.
PrincipalRepaidAnyHorizon ==
    DebtServiceCase => SumCol(debt_df["principal_payment"]) = debt_principal

\* C3 as amended: the principal payments add up to the original principal
\* when the tenor is at least one month and the schedule reaches the end of
\* the tenor (total_months >= construction_months + tenor months); in every
\* schedule they add up to no more than the principal.
PrincipalRepaidWithinHorizon ==
    DebtServiceCase =>
        /\ SumCol(debt_df["principal_payment"]) <= debt_principal
        /\ (TenorMonths(inputs.financing) >= 1 /\ total_months >= DebtEnd)
              => SumCol(debt_df["principal_payment"]) = debt_principal

PrincipalRepaidWitness ==
    /\ DebtServiceCase
    /\ inputs.financing.amortization = "level"
    /\ inputs.financing.interest_rate_pct > 0
    /\ inputs.financing.tenor_years = 1
    /\ total_months = DebtEnd
    /\ debt_df["principal_payment"][total_months - 1]
          > debt_df["principal_payment"][total_months - 2]
    /\ SumCol(debt_df["principal_payment"]) = debt_principal

(***************************************************************************)
(* EnergyModel.calculate_monthly_energy                                    *)
(*                                                                         *)
(* A date is a (year, month) pair: the day of the month plays no part in   *)
(* the code.  degradation_bp_per_year is degradation_pct_per_year x 100    *)
(* (0.5 %/year is 50) and dc_ac_ratio_pct is dc_ac_ratio x 100.  The       *)
(* hourly profile read by _calculate_from_8760 enters as the monthly sums  *)
(* the code groups it into (a month absent from the file has no entry).    *)
(* ac_kw x capacity factor x 8760 is a multiple of 1461 = 4 x 365.25, so   *)
(* the monthly energies are whole numbers of kWh.                          *)
(***************************************************************************)
MonthIndex(date) == date.year * 12 + (date.month - 1)

DateOfIndex(k) == [year |-> k \div 12, month |-> (k % 12) + 1]

NtpDate(project) ==
    DateOfIndex(MonthIndex(project.cod_date) - project.construction_months)

PeriodDate(project, i) == DateOfIndex(MonthIndex(NtpDate(project)) + i)

IsLeapYear(y) == (y % 4 = 0 /\ y % 100 # 0) \/ y % 400 = 0

DaysInMonth(date) ==
    CASE date.month \in {4, 6, 9, 11} -> 30
      [] date.month = 2 -> IF IsLeapYear(date.year) THEN 29 ELSE 28
      [] OTHER -> 31

TotalMonths(project) == project.construction_months + project.model_years * 12

MonthInOperation_ZeroBased(construction_months, i) ==
    IF i < construction_months THEN 0 ELSE i - construction_months

MonthInOperation(construction_months, i) ==
    IF i < construction_months THEN 0 ELSE i - construction_months + 1

YearInOperation(m) == IF m > 0 THEN m \div 12 + 1 ELSE 0

PeriodGrid(project) ==
    LET n == TotalMonths(project)
        mio == [i \in Rows(n) |->
                   MonthInOperation(project.construction_months, i)]
    IN  [c \in {"period", "date", "month_in_operation", "year_in_operation"} |->
            CASE c = "period" -> [i \in Rows(n) |-> i]
              [] c = "date" -> [i \in Rows(n) |-> PeriodDate(project, i)]
              [] c = "month_in_operation" -> mio
              [] c = "year_in_operation" ->
                    [i \in Rows(n) |-> YearInOperation(mio[i])]]

Bp(x, bp) == ((x \div 100) * bp) \div 100

DegradationFactorBp(sizing, year_in_op) ==
    10000 - sizing.degradation_bp_per_year * (year_in_op - 1)

BaseAnnualKwh(sizing) ==
    Pct(Pct(sizing.ac_kw, sizing.capacity_factor_pct) * 8760,
        sizing.performance_ratio_pct)

SyntheticAcKwh(sizing, date, year_in_op) ==
    LET monthly_base == (BaseAnnualKwh(sizing) \div 1461) * 4 * DaysInMonth(date)
        degraded == Bp(monthly_base, DegradationFactorBp(sizing, year_in_op))
    IN  Pct(Pct(degraded, sizing.availability_pct),
            100 - sizing.curtailment_pct)

ProfileAcKwh(sizing, date, year_in_op) ==
    LET monthly_base == sizing.profile_monthly_kwh
        base_monthly_kwh == IF date.month \in DOMAIN monthly_base
                            THEN monthly_base[date.month]
                            ELSE 0
        degraded == Bp(base_monthly_kwh, DegradationFactorBp(sizing, year_in_op))
    IN  Pct(Pct(degraded, sizing.availability_pct),
            100 - sizing.curtailment_pct)

UsesProfile(sizing) == sizing.use_8760 /\ sizing.csv_path_8760 # "none"

WithColumns(df, new) ==
    [c \in (DOMAIN df) \cup (DOMAIN new) |->
        IF c \in DOMAIN new THEN new[c] ELSE df[c]]

EnergyColumns(sizing, df, n) ==
    LET ac == [i \in Rows(n) |->
                 IF df["month_in_operation"][i] = 0
                 THEN 0
                 ELSE IF UsesProfile(sizing)
                      THEN ProfileAcKwh(sizing, df["date"][i],
                                        df["year_in_operation"][i])
                      ELSE SyntheticAcKwh(sizing, df["date"][i],
                                          df["year_in_operation"][i])]
    IN  [c \in {"ac_kwh", "dc_kwh", "ac_mwh"} |->
            CASE c = "ac_kwh" -> ac
              [] c = "dc_kwh" ->
                    [i \in Rows(n) |-> Pct(ac[i], sizing.dc_ac_ratio_pct)]
              [] c = "ac_mwh" -> [i \in Rows(n) |-> ac[i] \div 1000]]

calculate_monthly_energy(project, sizing) ==
    LET df == PeriodGrid(project)
    IN  WithColumns(df, EnergyColumns(sizing, df, TotalMonths(project)))

CodDates == {[year |-> 2027, month |-> 6], [year |-> 2028, month |-> 1]}

FlatProfile == [m \in 1 .. 12 |-> 100000]

SummerProfile == [m \in 4 .. 9 |-> 200000]

EnergyProjects ==
    [cod_date : CodDates,
     construction_months : 0 .. MaxConstructionMonths,
     model_years : 1 .. MaxModelYears]

EnergySizings ==
    [ac_kw : {12175},
     dc_ac_ratio_pct : {125},
     capacity_factor_pct : {20},
     performance_ratio_pct : {100},
     availability_pct : {100, 50},
     curtailment_pct : {0, 50},
     degradation_bp_per_year : {0, 50, 10000, 20000},
     use_8760 : BOOLEAN,
     csv_path_8760 : {"none", "profile.csv"},
     profile_monthly_kwh : {FlatProfile, SummerProfile}]

InitEnergy ==
    /\ inputs \in [project : EnergyProjects, sizing : EnergySizings]
    /\ pc = "calculate_monthly_energy"
    /\ energy_df = NoFrame
    /\ NoItcLocals
    /\ NoDebtLocals
    /\ cashflow_df = NoFrame
    /\ NoRunLocals

CallCalculateMonthlyEnergy ==
    /\ pc = "calculate_monthly_energy"
    /\ energy_df' = calculate_monthly_energy(inputs.project, inputs.sizing)
    /\ pc' = "energy_returned"
    /\ UNCHANGED <<inputs, itcLocals, cashflow_df, debtLocals,
                   runLocals>>

NextEnergy == CallCalculateMonthlyEnergy

SpecEnergy == InitEnergy /\ [][NextEnergy]_vars

(***************************************************************************)
(* OpExModel (src/model/opex.py)                                           *)
(*                                                                         *)
(* Rates are whole dollars; an annual amount becomes a monthly one by      *)
(* Monthly.  An escalator of e % per year applied over k years is k        *)
(* successive multiplications by (100 + e) / 100.                          *)
(***************************************************************************)
Monthly(annual) == annual \div 12

RECURSIVE Escalate(_, _, _)
Escalate(x, escalator_pct, years) ==
    IF years = 0
    THEN x
    ELSE IF years > 0
         THEN Escalate(Pct(x, 100 + escalator_pct), escalator_pct, years - 1)
         ELSE Escalate((x * 100) \div (100 + escalator_pct), escalator_pct,
                       years + 1)

FrameRows(df) == DOMAIN df["period"]

ZeroColumn(df) == [i \in FrameRows(df) |-> 0]

OpexRow_NoGuard(opex, ac_kw, c, month_in_op, ac_mwh) ==
    CASE c = "fixed_om" -> Monthly(opex.fixed_om_usd_per_kw_year * ac_kw)
      [] c = "variable_om" -> ac_mwh * opex.variable_om_usd_per_mwh
      [] c = "insurance" -> Monthly(opex.insurance_usd_per_kw_year * ac_kw)
      [] c = "asset_management" -> Monthly(opex.asset_mgmt_usd_per_kw_year * ac_kw)
      [] c = "other_opex" -> Monthly(opex.other_opex_usd_year)

OpexRow(opex, ac_kw, c, month_in_op, ac_mwh) ==
    IF month_in_op > 0
    THEN CASE c = "fixed_om" -> Monthly(opex.fixed_om_usd_per_kw_year * ac_kw)
           [] c = "variable_om" -> ac_mwh * opex.variable_om_usd_per_mwh
           [] c = "insurance" -> Monthly(opex.insurance_usd_per_kw_year * ac_kw)
           [] c = "asset_management" ->
                 Monthly(opex.asset_mgmt_usd_per_kw_year * ac_kw)
           [] c = "other_opex" -> Monthly(opex.other_opex_usd_year)
    ELSE 0

MonthlyOpexColumns ==
    {"fixed_om", "variable_om", "insurance", "asset_management", "other_opex"}

calculate_monthly_opex(opex, ac_kw, energy) ==
    WithColumns(energy,
        [c \in MonthlyOpexColumns |->
            [i \in FrameRows(energy) |->
                OpexRow(opex, ac_kw, c, energy["month_in_operation"][i],
                        energy["ac_mwh"][i])]])

LandLeaseRow(land, month_in_op, year_in_op) ==
    IF month_in_op > 0
    THEN Monthly(Escalate(land.lease_base_usd_per_acre_year * land.acres,
                          land.lease_escalator_pct, year_in_op - 1))
    ELSE 0

calculate_land_costs(land, energy) ==
    CASE land.mode = "lease" ->
            WithColumns(energy,
                [c \in {"land_lease"} |->
                    [i \in FrameRows(energy) |->
                        LandLeaseRow(land, energy["month_in_operation"][i],
                                     energy["year_in_operation"][i])]])
      [] land.mode = "purchase" ->
            WithColumns(energy, [c \in {"land_lease"} |-> ZeroColumn(energy)])
      [] OTHER -> energy

AnnualPilot(pilot_schedule, year_in_op) ==
    LET year_idx == year_in_op - 1
    IN  IF year_idx < Len(pilot_schedule)
        THEN pilot_schedule[year_idx + 1]
        ELSE IF Len(pilot_schedule) > 0
             THEN pilot_schedule[Len(pilot_schedule)]
             ELSE 0

PropertyTaxRow(property_tax, month_in_op, year_in_op) ==
    IF month_in_op > 0
    THEN IF property_tax.pilot_enabled
         THEN Monthly(AnnualPilot(property_tax.pilot_schedule_usd_per_year,
                                  year_in_op))
         ELSE Monthly(Pct(property_tax.property_tax_if_no_pilot.assessed_value_usd,
                          property_tax.property_tax_if_no_pilot.mill_rate_pct))
    ELSE 0

calculate_property_tax(property_tax, energy) ==
    WithColumns(energy,
        [c \in {"property_tax"} |->
            [i \in FrameRows(energy) |->
                PropertyTaxRow(property_tax, energy["month_in_operation"][i],
                               energy["year_in_operation"][i])]])

calculate_inverter_replacements(energy) ==
    WithColumns(energy, [c \in {"inverter_replacement"} |-> ZeroColumn(energy)])

OpexColumns ==
    {"fixed_om", "variable_om", "insurance", "asset_management",
     "other_opex", "land_lease", "property_tax", "inverter_replacement"}

RECURSIVE SumOver(_, _, _)
SumOver(df, cols, i) ==
    IF cols = {}
    THEN 0
    ELSE LET c == CHOOSE x \in cols : TRUE
         IN  df[c][i] + SumOver(df, cols \ {c}, i)

calculate_total_opex(energy) ==
    LET filled == WithColumns(energy,
                      [c \in OpexColumns \ DOMAIN energy |-> ZeroColumn(energy)])
    IN  WithColumns(filled,
            [c \in {"total_opex"} |->
                [i \in FrameRows(filled) |-> SumOver(filled, OpexColumns, i)]])

OpexStep(inp, energy) ==
    calculate_total_opex(
        calculate_inverter_replacements(
            calculate_property_tax(inp.property_tax_pilot,
                calculate_land_costs(inp.land,
                    calculate_monthly_opex(inp.opex, inp.sizing.ac_kw, energy)))))

(***************************************************************************)
(* RevenueModel (src/model/revenue.py): common streams, community solar    *)
(* and PPA                                                                  *)
(***************************************************************************)
TotalSubscribers == 100

SubscriptionPct == 95

RecRevenueRow(revenue_common, month_in_op, year_in_op, ac_mwh) ==
    IF month_in_op > 0
    THEN ac_mwh * Escalate(revenue_common.rec_price_usd_per_mwh,
                           revenue_common.rec_escalator_pct, year_in_op - 1)
    ELSE 0

calculate_rec_revenue(revenue_common, df) ==
    WithColumns(df,
        [c \in {"rec_revenue"} |->
            [i \in FrameRows(df) |->
                RecRevenueRow(revenue_common, df["month_in_operation"][i],
                              df["year_in_operation"][i], df["ac_mwh"][i])]])

CapacityRevenueRow(revenue_common, ac_kw, month_in_op, year_in_op) ==
    IF /\ month_in_op > 0
       /\ \/ revenue_common.capacity_term_years = 0
          \/ year_in_op <= revenue_common.capacity_term_years
    THEN Monthly(revenue_common.capacity_revenue_usd_per_kw_year * ac_kw)
    ELSE 0

calculate_capacity_revenue(revenue_common, ac_kw, df) ==
    WithColumns(df,
        [c \in {"capacity_revenue"} |->
            [i \in FrameRows(df) |->
                CapacityRevenueRow(revenue_common, ac_kw,
                                   df["month_in_operation"][i],
                                   df["year_in_operation"][i])]])

Ramp(x, month_in_op, ramp_months) ==
    IF month_in_op <= ramp_months
    THEN (x * month_in_op) \div ramp_months
    ELSE x

SubscriberPayment(cs, month_in_op, ac_mwh) ==
    LET gross_credit == ac_mwh * cs.utility_credit_value_usd_per_mwh * 1000
    IN  Ramp(Pct(Pct(gross_credit, 100 - cs.subscriber_discount_pct),
                 SubscriptionPct),
             month_in_op, cs.ramp_to_full_subscribed_months)

CommunitySolarRow(cs, c, month_in_op, ac_mwh) ==
    IF month_in_op > 0
    THEN LET subscriber_payment == SubscriberPayment(cs, month_in_op, ac_mwh)
             bad_debt_amount ==
                 Pct(subscriber_payment, cs.bad_debt_pct_of_billings)
         IN  CASE c = "subscriber_revenue" ->
                     subscriber_payment - bad_debt_amount
               [] c = "cdg_mgmt_fees" ->
                     Ramp(Pct(cs.mgmt_fee_usd_per_acct_month * TotalSubscribers,
                              SubscriptionPct),
                          month_in_op, cs.ramp_to_full_subscribed_months)
               [] c = "cdg_acquisition_costs" ->
                     IF month_in_op <= cs.ramp_to_full_subscribed_months
                     THEN (TotalSubscribers * cs.acquisition_cost_usd_per_subscriber)
                              \div cs.ramp_to_full_subscribed_months
                     ELSE Monthly(Pct(TotalSubscribers
                                          * cs.acquisition_cost_usd_per_subscriber,
                                      cs.annual_churn_pct))
               [] c = "cdg_bad_debt" -> bad_debt_amount
    ELSE 0

CommunitySolarColumns ==
    {"subscriber_revenue", "cdg_mgmt_fees", "cdg_acquisition_costs",
     "cdg_bad_debt"}

calculate_community_solar_revenue(cs, df) ==
    WithColumns(df,
        [c \in CommunitySolarColumns |->
            [i \in FrameRows(df) |->
                CommunitySolarRow(cs, c, df["month_in_operation"][i],
                                  df["ac_mwh"][i])]])

PpaRow(ppa, c, month_in_op, year_in_op, ac_mwh) ==
    IF month_in_op > 0
    THEN IF year_in_op <= ppa.ppa_term_years
         THEN IF c = "ppa_revenue"
              THEN ac_mwh * Escalate(ppa.ppa_price_usd_per_mwh,
                                     ppa.ppa_escalator_pct, year_in_op - 1)
              ELSE 0
         ELSE IF c = "merchant_revenue"
              THEN ac_mwh * Escalate(ppa.ppa_price_usd_per_mwh,
                                     ppa.ppa_escalator_pct,
                                     ppa.ppa_term_years - 1)
              ELSE 0
    ELSE 0

calculate_ppa_revenue(ppa, df) ==
    WithColumns(df,
        [c \in {"ppa_revenue", "merchant_revenue"} |->
            [i \in FrameRows(df) |->
                PpaRow(ppa, c, df["month_in_operation"][i],
                       df["year_in_operation"][i], df["ac_mwh"][i])]])

(***************************************************************************)
(* RevenueModel: state programs (NY VDER, NJ CSEP, IL ABP), total revenue  *)
(* and upfront grants.  Rates the configuration gives in $/kWh or $/Wdc    *)
(* are in cents here ($0.10/kWh is 10).                                    *)
(***************************************************************************)
RECURSIVE LsrvRevenue(_, _, _)
LsrvRevenue(tranches, ac_kw, year_in_op) ==
    IF tranches = <<>>
    THEN 0
    ELSE (IF year_in_op <= Head(tranches).years
          THEN Monthly(ac_kw * Head(tranches).usd_per_kw_year)
          ELSE 0)
         + LsrvRevenue(Tail(tranches), ac_kw, year_in_op)

VderRow(ny_vder, ac_kw, c, month_in_op, year_in_op, ac_mwh, ac_kwh) ==
    IF month_in_op > 0
    THEN LET vs == ny_vder.value_stack
             cc == ny_vder.community_credit
         IN  CASE c = "vder_energy" ->
                     Pct(ac_mwh * vs.energy_usd_per_mwh, 100 + vs.loss_factor_pct)
               [] c = "vder_environmental" -> ac_mwh * vs.env_usd_per_mwh
               [] c = "vder_icap" -> Monthly(ac_kw * vs.icap_usd_per_kw_year)
               [] c = "vder_drv" ->
                     IF year_in_op <= Len(vs.drv_schedule_usd_per_kw_year)
                     THEN Monthly(ac_kw * vs.drv_schedule_usd_per_kw_year[year_in_op])
                     ELSE 0
               [] c = "vder_lsrv" ->
                     LsrvRevenue(vs.lsrv_tranches, ac_kw, year_in_op)
               [] c = "ny_community_credit" ->
                     IF year_in_op <= cc.term_years
                     THEN Pct(ac_kwh, Escalate(cc.cents_per_kwh, cc.escalator_pct,
                                               year_in_op - 1))
                     ELSE 0
    ELSE 0

VderStackColumns ==
    {"vder_energy", "vder_environmental", "vder_icap", "vder_drv", "vder_lsrv"}

VderSubscriberOverride(cs, df) ==
    LET total == WithColumns(df,
                     [c \in {"vder_total_value"} |->
                         [i \in FrameRows(df) |-> SumOver(df, VderStackColumns, i)]])
    IN  WithColumns(total,
            [c \in {"subscriber_revenue"} |->
                [i \in FrameRows(df) |->
                    Pct(Pct(total["vder_total_value"][i]
                                + total["ny_community_credit"][i],
                            100 - cs.subscriber_discount_pct),
                        SubscriptionPct)]])

calculate_ny_vder_revenue(inp, df) ==
    IF ~inp.program.ny_vder.enabled
    THEN df
    ELSE LET stack == WithColumns(df,
                 [c \in VderStackColumns \cup {"ny_community_credit"} |->
                     [i \in FrameRows(df) |->
                         VderRow(inp.program.ny_vder, inp.sizing.ac_kw, c,
                                 df["month_in_operation"][i],
                                 df["year_in_operation"][i],
                                 df["ac_mwh"][i], df["ac_kwh"][i])]])
         IN  IF inp.project.mode = "community_solar"
             THEN VderSubscriberOverride(inp.community_solar, stack)
             ELSE stack

NjCsepRow(nj_csep, cs, c, month_in_op, ac_mwh, ac_kwh) ==
    IF month_in_op > 0
    THEN LET blended_bcr ==
                 Pct(nj_csep.customer_mix_pct.residential,
                     nj_csep.bill_credit_rates_cents_per_kwh.residential)
                 + Pct(nj_csep.customer_mix_pct.small_commercial,
                       nj_csep.bill_credit_rates_cents_per_kwh.small_commercial)
             credit_value ==
                 Pct(Pct(ac_kwh, blended_bcr), 100 - nj_csep.loss_factor_pct)
             blended_discount ==
                 Pct(cs.lmi_share_pct, nj_csep.subscriber_discounts_pct.lmi)
                 + Pct(100 - cs.lmi_share_pct,
                       nj_csep.subscriber_discounts_pct.non_lmi)
         IN  IF c = "nj_bill_credit_revenue"
             THEN Pct(Pct(credit_value, 100 - blended_discount), SubscriptionPct)
             ELSE ac_mwh * (nj_csep.program_adders.lmi_usd_per_mwh
                            + nj_csep.program_adders.siting_usd_per_mwh)
    ELSE 0

calculate_nj_csep_revenue(inp, df) ==
    IF ~inp.program.nj_csep.enabled
    THEN df
    ELSE LET nj == WithColumns(df,
                 [c \in {"nj_bill_credit_revenue", "nj_program_adders"} |->
                     [i \in FrameRows(df) |->
                         NjCsepRow(inp.program.nj_csep, inp.community_solar, c,
                                   df["month_in_operation"][i],
                                   df["ac_mwh"][i], df["ac_kwh"][i])]])
         IN  IF inp.project.mode = "community_solar"
             THEN WithColumns(nj,
                      [c \in {"subscriber_revenue"} |-> nj["nj_bill_credit_revenue"]])
             ELSE nj

RECURSIVE SeqSum(_)
SeqSum(s) == IF s = <<>> THEN 0 ELSE Head(s) + SeqSum(Tail(s))

IlAbpTotalRecs(il_abp, df) ==
    SumCol([i \in FrameRows(df) |->
               IF /\ df["year_in_operation"][i] > 0
                  /\ df["year_in_operation"][i] <= il_abp.rec_term_years
               THEN df["ac_mwh"][i]
               ELSE 0])

IlAbpAnnualShare(il_abp, total_rec_value, year_in_op) ==
    LET payment_schedule == il_abp.payment_schedule_pct_by_year
        total_pct == SeqSum(payment_schedule)
        year_idx == year_in_op - 1
    IN  IF year_idx < Len(payment_schedule)
        THEN IF total_pct > 0
             THEN (total_rec_value * payment_schedule[year_idx + 1]) \div total_pct
             ELSE total_rec_value * payment_schedule[year_idx + 1]
        ELSE 0

IlAbpRow(il_abp, total_rec_value, c, month_in_op, year_in_op, ac_mwh) ==
    IF month_in_op > 0 /\ year_in_op <= il_abp.rec_term_years
    THEN LET monthly_rec_revenue ==
                 Monthly(IlAbpAnnualShare(il_abp, total_rec_value, year_in_op))
         IN  CASE c = "il_abp_rec_revenue" -> monthly_rec_revenue
               [] c = "il_abp_brownfield_adder" ->
                     ac_mwh * il_abp.brownfield_or_site_adder_usd_per_mwh
               [] c = "il_abp_admin_fees" ->
                     Pct(monthly_rec_revenue, il_abp.admin_fees_pct)
    ELSE 0

IlAbpColumns ==
    {"il_abp_rec_revenue", "il_abp_brownfield_adder", "il_abp_admin_fees"}

calculate_il_abp_revenue(inp, df) ==
    IF ~inp.program.il_abp.enabled
    THEN df
    ELSE LET il_abp == inp.program.il_abp
             total_rec_value == IlAbpTotalRecs(il_abp, df) * il_abp.rec_price_usd
         IN  WithColumns(df,
                 [c \in IlAbpColumns |->
                     [i \in FrameRows(df) |->
                         IlAbpRow(il_abp, total_rec_value, c,
                                  df["month_in_operation"][i],
                                  df["year_in_operation"][i],
                                  df["ac_mwh"][i])]])

(***************************************************************************)
(* _calculate_total_revenue selects the columns whose name contains        *)
(* 'revenue' and those of an explicit list.  NamedRevenueColumns are the   *)
(* column names of the program that contain 'revenue'.                     *)
(***************************************************************************)
NamedRevenueColumns ==
    {"rec_revenue", "capacity_revenue", "subscriber_revenue", "ppa_revenue",
     "merchant_revenue", "nj_bill_credit_revenue", "il_abp_rec_revenue",
     "total_revenue"}

ListedRevenueColumns ==
    {"vder_energy", "vder_environmental", "vder_icap", "vder_drv", "vder_lsrv",
     "ny_community_credit", "nj_bill_credit_revenue", "nj_program_adders",
     "il_abp_rec_revenue", "il_abp_brownfield_adder"}

RevenueCols_WithMerchant(df) ==
    ((DOMAIN df) \cap (NamedRevenueColumns \cup ListedRevenueColumns))
        \ {"total_revenue"}

RevenueCols_WithCdgFees(df) ==
    ((DOMAIN df) \cap (NamedRevenueColumns \cup ListedRevenueColumns
                           \cup {"cdg_mgmt_fees"}))
        \ {"merchant_revenue", "total_revenue"}

RevenueCols(df) ==
    ((DOMAIN df) \cap (NamedRevenueColumns \cup ListedRevenueColumns))
        \ {"merchant_revenue", "total_revenue"}

calculate_total_revenue(df) ==
    WithColumns(df,
        [c \in {"total_revenue"} |->
            [i \in FrameRows(df) |-> SumOver(df, RevenueCols(df), i)]])

ModeRevenue(inp, df) ==
    CASE inp.project.mode = "community_solar" ->
            calculate_community_solar_revenue(inp.community_solar, df)
      [] inp.project.mode = "ppa" -> calculate_ppa_revenue(inp.ppa, df)
      [] OTHER -> df

ProgramRevenue(inp, df) ==
    CASE inp.program.active = "ny_vder" -> calculate_ny_vder_revenue(inp, df)
      [] inp.program.active = "nj_csep" -> calculate_nj_csep_revenue(inp, df)
      [] inp.program.active = "il_abp" -> calculate_il_abp_revenue(inp, df)
      [] OTHER -> df

calculate_revenue(inp, energy) ==
    calculate_total_revenue(
        ProgramRevenue(inp,
            ModeRevenue(inp,
                calculate_capacity_revenue(inp.revenue_common, inp.sizing.ac_kw,
                    calculate_rec_revenue(inp.revenue_common, energy)))))

get_upfront_grants(inp) ==
    LET program == inp.program
        ny_sun == program.ny_vder.ny_sun
        nj_rate == program.nj_csep.program_adders.upfront_cents_per_wdc
        il_rebate == program.il_abp.smart_inverter_rebate_usd_per_kwac
    IN  CASE program.active = "ny_vder" /\ ny_sun.icsa_enabled ->
                <<Pct(inp.sizing.dc_kw, ny_sun.icsa_cents_per_wdc),
                  ny_sun.grant_timing>>
          [] /\ program.active = "ny_vder"
             /\ ~ny_sun.icsa_enabled
             /\ ny_sun.upfront_other_cents_per_wdc > 0 ->
                <<Pct(inp.sizing.dc_kw, ny_sun.upfront_other_cents_per_wdc),
                  ny_sun.grant_timing>>
          [] program.active = "nj_csep" /\ nj_rate > 0 ->
                <<Pct(inp.sizing.dc_kw, nj_rate), "COD">>
          [] program.active = "il_abp" /\ il_rebate > 0 ->
                <<il_rebate * inp.sizing.ac_kw, "COD">>
          [] OTHER -> <<0, "COD">>

(***************************************************************************)
(* CapExModel (src/model/capex.py)                                         *)
(***************************************************************************)
EpcCategories ==
    {"modules", "inverters", "racking", "bos", "civil", "interconnection",
     "owner_costs", "development_soft_costs", "epc_indirects"}

ConstructionCapexCategories == EpcCategories \cup {"contingency"}

CapexCategories ==
    ConstructionCapexCategories \cup {"developer_fee", "decommissioning_reserve"}

RECURSIVE SumFields(_, _)
SumFields(rec, keys) ==
    IF keys = {}
    THEN 0
    ELSE LET k == CHOOSE x \in keys : TRUE
         IN  rec[k] + SumFields(rec, keys \ {k})

EpcSubtotal(capex) == SumFields(capex.usd, EpcCategories)

calculate_total_epc_cost(capex) ==
    EpcSubtotal(capex) + Pct(EpcSubtotal(capex), capex.contingency_pct)

calculate_developer_fee(developer, epc_cost) ==
    CASE developer.developer_fee_mode = "percent_of_epc" ->
            Pct(epc_cost, developer.developer_fee_pct)
      [] developer.developer_fee_mode = "fixed" ->
            developer.developer_fee_fixed_usd
      [] OTHER -> 0

CapexBreakdown(inp) ==
    LET epc_cost == calculate_total_epc_cost(inp.capex)
    IN  [cat \in CapexCategories |->
            CASE cat \in EpcCategories -> inp.capex.usd[cat]
              [] cat = "contingency" ->
                    Pct(EpcSubtotal(inp.capex), inp.capex.contingency_pct)
              [] cat = "developer_fee" ->
                    calculate_developer_fee(inp.developer, epc_cost)
              [] cat = "decommissioning_reserve" ->
                    inp.capex.decommissioning_reserve_usd]

calculate_total_capex(inp) ==
    calculate_total_epc_cost(inp.capex)
    + calculate_developer_fee(inp.developer, calculate_total_epc_cost(inp.capex))
    + inp.capex.decommissioning_reserve_usd

DeveloperFeeAt(developer, construction_months, dev_fee_total, i) ==
    CASE developer.developer_fee_timing = "NTP" ->
            IF i = 0 THEN dev_fee_total ELSE 0
      [] developer.developer_fee_timing = "COD" ->
            IF construction_months > 0 /\ i = construction_months - 1
            THEN dev_fee_total
            ELSE 0
      [] developer.developer_fee_timing = "over_time" ->
            IF i < construction_months
            THEN dev_fee_total \div construction_months
            ELSE 0
      [] OTHER -> 0

CapexAt(inp, breakdown, cat, i) ==
    LET construction_months == inp.project.construction_months
    IN  CASE cat \in ConstructionCapexCategories ->
                IF i < construction_months
                THEN breakdown[cat] \div construction_months
                ELSE 0
          [] cat = "developer_fee" ->
                DeveloperFeeAt(inp.developer, construction_months,
                               breakdown[cat], i)
          [] cat = "decommissioning_reserve" ->
                IF construction_months > 0 /\ i = construction_months - 1
                THEN breakdown[cat]
                ELSE 0

create_capex_schedule(inp, months) ==
    LET breakdown == CapexBreakdown(inp)
        df == [c \in CapexCategories \cup {"period"} |->
                  [i \in Rows(months) |->
                      IF c = "period" THEN i ELSE CapexAt(inp, breakdown, c, i)]]
    IN  WithColumns(df,
            [c \in {"total_capex"} |->
                [i \in Rows(months) |-> SumOver(df, CapexCategories, i)]])

get_depreciable_basis(inp) ==
    calculate_total_capex(inp) - inp.capex.decommissioning_reserve_usd

(***************************************************************************)
(* TaxModel.calculate_ptc and TaxModel.calculate_depreciation              *)
(*                                                                         *)
(* The MACRS tables are in hundredths of a percent (0.2000 is 2000).       *)
(***************************************************************************)
MACRS_5YR == <<2000, 3200, 1920, 1152, 1152, 576>>

MACRS_7YR == <<1429, 2449, 1749, 1249, 893, 892, 893, 446>>

PtcRow(tax_credits, month_in_op, ac_mwh) ==
    IF month_in_op > 0 /\ month_in_op <= tax_credits.ptc_term_years * 12
    THEN ac_mwh * tax_credits.ptc_usd_per_mwh
    ELSE 0

calculate_ptc(tax_credits, energy) ==
    WithColumns(energy,
        [c \in {"ptc_amount"} |->
            IF tax_credits.mode # "PTC"
            THEN ZeroColumn(energy)
            ELSE [i \in FrameRows(energy) |->
                     PtcRow(tax_credits, energy["month_in_operation"][i],
                            energy["ac_mwh"][i])]])

DepreciationSchedule(taxes) ==
    CASE taxes.depr_schedule = "MACRS_5yr" -> MACRS_5YR
      [] taxes.depr_schedule = "MACRS_7yr" -> MACRS_7YR
      [] OTHER -> MACRS_5YR

AnnualDepreciation(inp, depreciable_basis) ==
    LET schedule == DepreciationSchedule(inp.taxes)
        bonus_pct == inp.tax_credits.bonus_depreciation_pct
        bonus_amount == Pct(depreciable_basis, bonus_pct)
        remaining_basis == depreciable_basis - bonus_amount
    IN  [y \in 1 .. Len(schedule) |->
            IF bonus_pct > 0
            THEN (IF y = 1 THEN bonus_amount ELSE 0)
                 + Bp(remaining_basis, schedule[y])
            ELSE Bp(depreciable_basis, schedule[y])]

MonthlyDepreciation_NoGuard(inp, annual_depr, period) ==
    LET year_in_op == period \div 12
    IN  IF year_in_op < Len(annual_depr)
        THEN Monthly(annual_depr[year_in_op + 1])
        ELSE 0

MonthlyDepreciation(inp, annual_depr, period) ==
    IF period < inp.project.construction_months
    THEN 0
    ELSE LET month_in_op == period - inp.project.construction_months
             year_in_op == month_in_op \div 12
         IN  IF year_in_op < Len(annual_depr)
             THEN Monthly(annual_depr[year_in_op + 1])
             ELSE 0

calculate_depreciation(inp, depreciable_basis, months) ==
    LET annual_depr == AnnualDepreciation(inp, depreciable_basis)
    IN  [c \in {"period", "depreciation_federal", "depreciation_state"} |->
            [i \in Rows(months) |->
                IF c = "period"
                THEN i
                ELSE MonthlyDepreciation(inp, annual_depr, i)]]

(***************************************************************************)
(* DebtModel.size_debt, calculate_idc, calculate_reserves, calculate_dscr  *)
(*                                                                         *)
(* A pandas mean of no rows is NaN: a value that may be NaN is a record    *)
(* with a nan flag.  A ratio is kept as numerator and denominator.         *)
(***************************************************************************)
Num(x) == [nan |-> FALSE, value |-> x]

NaN == [nan |-> TRUE, value |-> 0]

FillNa(f) == IF f.nan THEN 0 ELSE f.value

Times(f, k) == IF f.nan THEN NaN ELSE Num(f.value * k)

None == [defined |-> FALSE]

RECURSIVE Gcd(_, _)
Gcd(a, b) == IF b = 0 THEN a ELSE Gcd(b, a % b)

\* x * num / den without forming x * num
MulDiv(x, num, den) ==
    LET g == Gcd(num, den)
        n == num \div g
        d == den \div g
    IN  (x \div d) * n + ((x % d) * n) \div d

Mean(col, rows) ==
    IF rows = {}
    THEN NaN
    ELSE Num(SumCol([i \in DOMAIN col |-> IF i \in rows THEN col[i] ELSE 0])
                 \div Cardinality(rows))

OperatingRows(df) == {i \in FrameRows(df) : df["month_in_operation"][i] > 0}

TargetDscrDebt(financing, avg_monthly_cfads) ==
    LET r == InterestRateMonthly(financing)
        n == TenorMonths(financing)
        target_payment == (avg_monthly_cfads * 100) \div financing.target_min_dscr_pct
    IN  IF r > 0
        THEN MulDiv(target_payment, Pow(1 + r, n) - 1, r * Pow(1 + r, n))
        ELSE target_payment * n

size_debt_Uncapped(financing, avg_monthly_cfads, total_capex) ==
    IF ~financing.use_debt
    THEN 0
    ELSE CASE financing.sizing_method = "target_dscr" ->
                 TargetDscrDebt(financing, avg_monthly_cfads)
           [] financing.sizing_method = "percent_of_cost" ->
                 Pct(total_capex, financing.debt_pct_of_cost)
           [] OTHER -> 0

size_debt(financing, avg_monthly_cfads, total_capex) ==
    IF ~financing.use_debt
    THEN 0
    ELSE CASE financing.sizing_method = "target_dscr" ->
                 Min(TargetDscrDebt(financing, avg_monthly_cfads),
                     Pct(total_capex, 80))
           [] financing.sizing_method = "percent_of_cost" ->
                 Pct(total_capex, financing.debt_pct_of_cost)
           [] OTHER -> 0

ConstructionRows(inp, capex_schedule) ==
    {i \in FrameRows(capex_schedule) :
        capex_schedule["period"][i] < inp.project.construction_months}

calculate_idc_FullyDrawn(inp, capex_schedule, principal_amount) ==
    LET rows == ConstructionRows(inp, capex_schedule)
        total_construction_capex ==
            SumCol([i \in FrameRows(capex_schedule) |->
                       IF i \in rows THEN capex_schedule["total_capex"][i] ELSE 0])
        monthly_interest[i \in rows] ==
            Pct(principal_amount * InterestRateMonthly(inp.financing),
                inp.capex.idc_pct_of_debt_drawn)
    IN  IF ~inp.financing.use_debt \/ principal_amount <= 0
        THEN 0
        ELSE IF total_construction_capex = 0
             THEN 0
             ELSE SumTo(monthly_interest, Cardinality(rows))

calculate_idc(inp, capex_schedule, principal_amount) ==
    LET rows == ConstructionRows(inp, capex_schedule)
        total_construction_capex ==
            SumCol([i \in FrameRows(capex_schedule) |->
                       IF i \in rows THEN capex_schedule["total_capex"][i] ELSE 0])
        cumulative_capex[i \in rows] ==
            capex_schedule["total_capex"][i]
            + (IF i = 0 THEN 0 ELSE cumulative_capex[i - 1])
        monthly_interest[i \in rows] ==
            Pct(MulDiv(principal_amount, cumulative_capex[i],
                       total_construction_capex)
                    * InterestRateMonthly(inp.financing),
                inp.capex.idc_pct_of_debt_drawn)
    IN  IF ~inp.financing.use_debt \/ principal_amount <= 0
        THEN 0
        ELSE IF total_construction_capex = 0
             THEN 0
             ELSE SumTo(monthly_interest, Cardinality(rows))

ReserveRow_MonthlyFunding(inp, dsra_target, om_reserve_target, c, period) ==
    LET construction_months == inp.project.construction_months
        dsra == IF inp.financing.use_debt THEN dsra_target ELSE Num(0)
    IN  IF period < construction_months - 1
        THEN Num(0)
        ELSE IF c \in {"dsra_funding", "dsra_balance"}
             THEN dsra
             ELSE om_reserve_target

ReserveRow(inp, dsra_target, om_reserve_target, c, period) ==
    LET construction_months == inp.project.construction_months
        dsra == IF inp.financing.use_debt THEN dsra_target ELSE Num(0)
    IN  IF period = construction_months - 1
        THEN IF c \in {"dsra_funding", "dsra_balance"}
             THEN dsra
             ELSE om_reserve_target
        ELSE IF period < construction_months
             THEN Num(0)
             ELSE CASE c = "dsra_balance" -> dsra
                    [] c = "om_reserve_balance" -> om_reserve_target
                    [] OTHER -> Num(0)

ReserveColumns ==
    {"dsra_funding", "dsra_balance", "om_reserve_funding", "om_reserve_balance"}

calculate_reserves(inp, monthly_opex_avg, monthly_debt_service_avg, months) ==
    LET dsra_target == Times(monthly_debt_service_avg, inp.financing.dsra_months)
        om_reserve_target == Times(monthly_opex_avg, inp.financing.om_reserve_months)
    IN  [c \in ReserveColumns \cup {"period"} |->
            [i \in Rows(months) |->
                IF c = "period"
                THEN i
                ELSE ReserveRow(inp, dsra_target, om_reserve_target, c, i)]]

DscrRow(debt_service, cfads) ==
    IF debt_service > 0
    THEN [defined |-> TRUE, num |-> cfads, den |-> debt_service]
    ELSE None

calculate_dscr(cf) ==
    WithColumns(cf,
        [c \in {"dscr"} |->
            [i \in FrameRows(cf) |->
                DscrRow(cf["total_debt_service"][i], cf["cfads"][i])]])

(***************************************************************************)
(* CashflowModel (src/model/cashflow.py) and the second pass of            *)
(* SolarFinancialModel.run (src/model/runner.py)                           *)
(***************************************************************************)
RECURSIVE MaxTo(_, _)
MaxTo(col, n) ==
    IF n = 1
    THEN col[0]
    ELSE LET m == MaxTo(col, n - 1)
         IN  IF col[n - 1] > m THEN col[n - 1] ELSE m

MaxCol(col) == MaxTo(col, Cardinality(DOMAIN col))

OneOff(df, period, amount) ==
    [i \in FrameRows(df) |-> IF i = period THEN amount ELSE 0]

MergeSchedules(energy, capex, debt, depreciation, reserves) ==
    LET with_capex ==
            IF "total_capex" \in DOMAIN energy
            THEN energy
            ELSE WithColumns(energy,
                     [c \in {"total_capex"} |-> capex["total_capex"]])
        with_debt ==
            WithColumns(with_capex,
                [c \in {"debt_balance", "interest_payment", "principal_payment",
                        "total_debt_service"} \cap DOMAIN debt |-> debt[c]])
        with_depreciation ==
            WithColumns(with_debt,
                [c \in {"depreciation_federal", "depreciation_state"}
                           \cap DOMAIN depreciation |-> depreciation[c]])
    IN  WithColumns(with_depreciation,
            [c \in {"dsra_funding", "om_reserve_funding"} \cap DOMAIN reserves |->
                [i \in FrameRows(energy) |-> FillNa(reserves[c][i])]])

ItcCreditColumn(inp, cf, amount) ==
    LET cod_period == inp.project.construction_months - 1
    IN  IF amount > 0 /\ cod_period >= 0 /\ cod_period < Cardinality(FrameRows(cf))
        THEN OneOff(cf, cod_period, amount)
        ELSE ZeroColumn(cf)

UpfrontGrantsColumn(inp, cf, grants, timing) ==
    LET grant_period == IF timing = "NTP"
                        THEN 0
                        ELSE inp.project.construction_months - 1
    IN  IF /\ grants > 0
           /\ grant_period >= 0
           /\ grant_period < Cardinality(FrameRows(cf))
        THEN OneOff(cf, grant_period, grants)
        ELSE ZeroColumn(cf)

DebtDrawdownColumn_AtNtp(inp, cf, debt) ==
    IF inp.financing.use_debt /\ inp.project.construction_months > 0
    THEN OneOff(cf, 0, MaxCol(debt["debt_balance"]))
    ELSE ZeroColumn(cf)

DebtDrawdownColumn(inp, cf, debt) ==
    IF inp.financing.use_debt /\ inp.project.construction_months > 0
    THEN OneOff(cf, inp.project.construction_months - 1,
                MaxCol(debt["debt_balance"]))
    ELSE ZeroColumn(cf)

Cfads(cf, i) ==
    cf["ebitda"][i] - cf["total_tax"][i] + cf["itc_credit"][i]
    + cf["upfront_grants"][i] - cf["dsra_funding"][i]
    - cf["om_reserve_funding"][i]

Fcfe(cf, i) ==
    cf["cfads"][i] - cf["total_debt_service"][i] + cf["debt_drawdown"][i]
    - cf["total_capex"][i]

EquityContribution_WholeFcfe(fcfe) == Abs(fcfe)

EquityContribution(fcfe) == IF fcfe < 0 THEN Abs(fcfe) ELSE 0

EquityDistribution(fcfe) == IF fcfe < 0 THEN 0 ELSE fcfe

EquitySplit(cf) ==
    WithColumns(cf,
        [c \in {"equity_contribution", "equity_distribution"} |->
            [i \in FrameRows(cf) |->
                IF c = "equity_contribution"
                THEN EquityContribution(cf["fcfe"][i])
                ELSE EquityDistribution(cf["fcfe"][i])]])

Waterfall(cf) ==
    LET with_cfads == WithColumns(cf,
            [c \in {"cfads"} |-> [i \in FrameRows(cf) |-> Cfads(cf, i)]])
        with_fcfe == WithColumns(with_cfads,
            [c \in {"fcfe"} |-> [i \in FrameRows(cf) |-> Fcfe(with_cfads, i)]])
    IN  EquitySplit(with_fcfe)

build_cashflow(inp, energy, capex, debt, depreciation, reserves, amount, grants, timing) ==
    LET merged == MergeSchedules(energy, capex, debt, depreciation, reserves)
        credits == WithColumns(merged,
            [c \in {"itc_credit", "upfront_grants"} |->
                IF c = "itc_credit"
                THEN ItcCreditColumn(inp, merged, amount)
                ELSE UpfrontGrantsColumn(inp, merged, grants, timing)])
        with_ebitda == WithColumns(credits,
            [c \in {"ebitda"} |->
                [i \in FrameRows(merged) |->
                    credits["total_revenue"][i] - credits["total_opex"][i]]])
        with_ebit == WithColumns(with_ebitda,
            [c \in {"ebit"} |->
                [i \in FrameRows(merged) |->
                    with_ebitda["ebitda"][i]
                    - with_ebitda["depreciation_federal"][i]]])
        with_income == WithColumns(with_ebit,
            [c \in {"taxable_income", "total_tax", "debt_drawdown"} |->
                CASE c = "taxable_income" ->
                        [i \in FrameRows(merged) |->
                            with_ebit["ebit"][i] - with_ebit["interest_payment"][i]]
                  [] c = "total_tax" -> ZeroColumn(merged)
                  [] c = "debt_drawdown" ->
                        DebtDrawdownColumn(inp, merged, debt)])
    IN  Waterfall(with_income)

SecondPass_TaxInEbitda(inp, cf) ==
    LET taxed == calculate_taxes(inp.taxes, cf)
    IN  Waterfall(WithColumns(taxed,
            [c \in {"ebitda"} |->
                [i \in FrameRows(cf) |->
                    taxed["ebitda"][i] - taxed["total_tax"][i]]]))

SecondPass_KeepsFirstPass(inp, cf) == calculate_taxes(inp.taxes, cf)

SecondPass(inp, cf) == Waterfall(calculate_taxes(inp.taxes, cf))

TerminalValueAt_PriorTwelve(inp, cf, i) ==
    LET construction_months == inp.project.construction_months
        hits == {k \in 1 .. Len(inp.exit.buyout_years) :
                    construction_months + inp.exit.buyout_years[k] * 12 - 1 = i}
    IN  IF hits # {} /\ i < Cardinality(FrameRows(cf))
        THEN SumCol([j \in FrameRows(cf) |->
                        IF j >= i - 12 /\ j <= i - 1 THEN cf["ebitda"][j] ELSE 0])
             * inp.exit.exit_multiple
        ELSE 0

TerminalValueAt(inp, cf, i) ==
    LET construction_months == inp.project.construction_months
        hits == {k \in 1 .. Len(inp.exit.buyout_years) :
                    construction_months + inp.exit.buyout_years[k] * 12 - 1 = i}
    IN  IF hits # {} /\ i < Cardinality(FrameRows(cf))
        THEN SumCol([j \in FrameRows(cf) |->
                        IF j >= i - 11 /\ j <= i THEN cf["ebitda"][j] ELSE 0])
             * inp.exit.exit_multiple
        ELSE 0

add_terminal_value(inp, cf) ==
    WithColumns(cf,
        [c \in {"terminal_value"} |->
            [i \in FrameRows(cf) |-> TerminalValueAt(inp, cf, i)]])

AddTerminalValueToDistribution(cf) ==
    WithColumns(cf,
        [c \in {"equity_distribution"} |->
            [i \in FrameRows(cf) |->
                cf["equity_distribution"][i] + cf["terminal_value"][i]]])

(***************************************************************************)
(* MetricsCalculator.calculate_all_metrics: the totals and the payback.    *)
(* The rates of return, present values and LCOE are real-valued (Newton    *)
(* iteration, fractional powers) and are not part of this record.          *)
(***************************************************************************)
EquityCashflow(cf, i) == cf["equity_distribution"][i] - cf["equity_contribution"][i]

calculate_payback_NonNegative(cf) ==
    LET n == Cardinality(FrameRows(cf))
        cumulative[i \in Rows(n)] ==
            EquityCashflow(cf, i) + (IF i = 0 THEN 0 ELSE cumulative[i - 1])
        paid == {i \in Rows(n) : cumulative[i] >= 0}
    IN  IF paid = {}
        THEN [nan |-> TRUE, num |-> 0, den |-> 12]
        ELSE [nan |-> FALSE,
              num |-> (CHOOSE i \in paid : \A j \in paid : i <= j) + 1,
              den |-> 12]

calculate_payback(cf) ==
    LET n == Cardinality(FrameRows(cf))
        cumulative[i \in Rows(n)] ==
            EquityCashflow(cf, i) + (IF i = 0 THEN 0 ELSE cumulative[i - 1])
        paid == {i \in Rows(n) : cumulative[i] > 0}
    IN  IF paid = {}
        THEN [nan |-> TRUE, num |-> 0, den |-> 12]
        ELSE [nan |-> FALSE,
              num |-> (CHOOSE i \in paid : \A j \in paid : i <= j) + 1,
              den |-> 12]

\* calculate_xirr: dates.iloc[0] is read before the try block; scipy's newton
\* either returns a rate or raises (no convergence within maxiter, or any
\* other failure); the bare except turns every exception of newton into
\* NaN.  The rate is in percent.
calculate_xirr_Propagates(cashflows, newton) ==
    IF DOMAIN cashflows = {}
    THEN [raised |-> TRUE, error |-> "IndexError", value |-> NaN]
    ELSE IF newton.raised
         THEN [raised |-> TRUE, error |-> newton.error, value |-> NaN]
         ELSE [raised |-> FALSE, error |-> "", value |-> Num(newton.root)]

calculate_xirr(cashflows, newton) ==
    IF DOMAIN cashflows = {}
    THEN [raised |-> TRUE, error |-> "IndexError", value |-> NaN]
    ELSE IF newton.raised
         THEN [raised |-> FALSE, error |-> "", value |-> NaN]
         ELSE [raised |-> FALSE, error |-> "", value |-> Num(newton.root)]

\* calculate_lcoe: the cost series whose present value is the numerator
LcoeCosts(cf) ==
    [i \in FrameRows(cf) |->
        cf["total_capex"][i] + cf["total_opex"][i]
        + cf["total_debt_service"][i] - cf["itc_credit"][i]
        - cf["upfront_grants"][i]]

calculate_all_metrics(cf) ==
    [payback_years |-> calculate_payback(cf),
     total_equity_invested |-> SumCol(cf["equity_contribution"]),
     total_capex |-> SumCol(cf["total_capex"]),
     total_debt |-> MaxCol(cf["debt_balance"]),
     lifetime_energy_mwh |-> SumCol(cf["ac_mwh"]),
     lifetime_revenue |-> SumCol(cf["total_revenue"])]

(***************************************************************************)
(* Configurations explored for SolarFinancialModel.run                     *)
(***************************************************************************)
RunProfile == [m \in 1 .. 12 |-> 1000000]

BaseSizing ==
    [ac_kw |-> 60875, dc_kw |-> 75000, dc_ac_ratio_pct |-> 125,
     capacity_factor_pct |-> 20, performance_ratio_pct |-> 100,
     availability_pct |-> 100, curtailment_pct |-> 0,
     degradation_bp_per_year |-> 0, use_8760 |-> FALSE,
     csv_path_8760 |-> "profile.csv", profile_monthly_kwh |-> RunProfile]

BaseOpex ==
    [fixed_om_usd_per_kw_year |-> 12, variable_om_usd_per_mwh |-> 1,
     insurance_usd_per_kw_year |-> 12, asset_mgmt_usd_per_kw_year |-> 12,
     other_opex_usd_year |-> 12000]

BaseLand ==
    [mode |-> "lease", lease_base_usd_per_acre_year |-> 1200, acres |-> 10,
     lease_escalator_pct |-> 100]

BasePropertyTax ==
    [pilot_enabled |-> FALSE,
     pilot_schedule_usd_per_year |-> <<12000, 24000>>,
     property_tax_if_no_pilot |->
         [assessed_value_usd |-> 1200000, mill_rate_pct |-> 1]]

BaseRevenueCommon ==
    [rec_price_usd_per_mwh |-> 10, rec_escalator_pct |-> 100,
     capacity_revenue_usd_per_kw_year |-> 12, capacity_term_years |-> 1]

BaseCommunitySolar ==
    [utility_credit_value_usd_per_mwh |-> 1, subscriber_discount_pct |-> 10,
     mgmt_fee_usd_per_acct_month |-> 2, annual_churn_pct |-> 6,
     bad_debt_pct_of_billings |-> 10, ramp_to_full_subscribed_months |-> 2,
     acquisition_cost_usd_per_subscriber |-> 120, lmi_share_pct |-> 20]

BasePpa ==
    [ppa_price_usd_per_mwh |-> 50, ppa_escalator_pct |-> 100,
     ppa_term_years |-> 1]

BaseProgram ==
    [active |-> "none",
     ny_vder |->
         [enabled |-> TRUE,
          value_stack |->
              [energy_usd_per_mwh |-> 20, env_usd_per_mwh |-> 10,
               icap_usd_per_kw_year |-> 12,
               drv_schedule_usd_per_kw_year |-> <<12>>,
               lsrv_tranches |-> <<[usd_per_kw_year |-> 12, years |-> 1]>>,
               loss_factor_pct |-> 5],
          community_credit |->
              [cents_per_kwh |-> 2, term_years |-> 1, escalator_pct |-> 0],
          ny_sun |->
              [icsa_enabled |-> TRUE, icsa_cents_per_wdc |-> 20,
               upfront_other_cents_per_wdc |-> 0, grant_timing |-> "NTP"]],
     nj_csep |->
         [enabled |-> TRUE,
          customer_mix_pct |-> [residential |-> 70, small_commercial |-> 30],
          bill_credit_rates_cents_per_kwh |->
              [residential |-> 10, small_commercial |-> 20],
          subscriber_discounts_pct |-> [lmi |-> 50, non_lmi |-> 50],
          program_adders |->
              [lmi_usd_per_mwh |-> 1, siting_usd_per_mwh |-> 1,
               upfront_cents_per_wdc |-> 10],
          loss_factor_pct |-> 0],
     il_abp |->
         [enabled |-> TRUE, rec_price_usd |-> 10, rec_term_years |-> 1,
          payment_schedule_pct_by_year |-> <<3, 1>>,
          brownfield_or_site_adder_usd_per_mwh |-> 1, admin_fees_pct |-> 10,
          smart_inverter_rebate_usd_per_kwac |-> 1]]

BaseCapex ==
    [usd |-> [cat \in EpcCategories |->
                 CASE cat = "modules" -> 198000
                   [] cat = "inverters" -> 42000
                   [] cat \in {"racking", "bos"} -> 30000
                   [] cat \in {"civil", "interconnection"} -> 18000
                   [] cat = "epc_indirects" -> 12000
                   [] OTHER -> 6000],
     contingency_pct |-> 5, decommissioning_reserve_usd |-> 98280,
     idc_pct_of_debt_drawn |-> 100]

BaseDeveloper ==
    [developer_fee_mode |-> "percent_of_epc", developer_fee_pct |-> 4,
     developer_fee_fixed_usd |-> 15000, developer_fee_timing |-> "COD"]

BaseFinancing ==
    [use_debt |-> TRUE, sizing_method |-> "percent_of_cost",
     debt_pct_of_cost |-> 60, target_min_dscr_pct |-> 125,
     interest_rate_pct |-> 1200, tenor_years |-> 1,
     amortization |-> "sculpted", dsra_months |-> 6, om_reserve_months |-> 6]

BaseTaxCredits ==
    [mode |-> "ITC", itc_pct |-> 30, adders_pct |-> 10,
     basis_reduction_pct |-> 50, reduce_itc_basis_for_grants |-> TRUE,
     bonus_depreciation_pct |-> 0, ptc_usd_per_mwh |-> 10,
     ptc_term_years |-> 1]

BaseTaxes ==
    [federal_tax_rate_pct |-> 21, state_tax_rate_pct |-> 6,
     nol_carryforward_years |-> 20, depr_schedule |-> "MACRS_5yr"]

BaseExit == [buyout_years |-> <<1>>, exit_multiple |-> 8]

BaseProject ==
    [mode |-> "community_solar",
     cod_date |-> [year |-> 2027, month |-> 6],
     construction_months |-> 1, model_years |-> 1]

BaseInputs ==
    [project |-> BaseProject, sizing |-> BaseSizing, opex |-> BaseOpex,
     land |-> BaseLand, property_tax_pilot |-> BasePropertyTax,
     revenue_common |-> BaseRevenueCommon,
     community_solar |-> BaseCommunitySolar, ppa |-> BasePpa,
     program |-> BaseProgram, capex |-> BaseCapex,
     developer |-> BaseDeveloper, financing |-> BaseFinancing,
     tax_credits |-> BaseTaxCredits, taxes |-> BaseTaxes, exit |-> BaseExit]

Horizons ==
    [construction_months : 0 .. MaxConstructionMonths,
     model_years : 1 .. MaxModelYears]

RevenueVariants ==
    [mode : {"community_solar", "ppa"},
     active : {"none", "ny_vder", "nj_csep", "il_abp"},
     enabled : BOOLEAN,
     use_8760 : BOOLEAN]

CostVariants ==
    [land_mode : {"lease", "purchase", "none"},
     pilot_enabled : BOOLEAN,
     developer_fee_timing : {"NTP", "COD", "over_time"}]

FinancingVariants ==
    {f \in [use_debt : BOOLEAN,
            sizing_method : {"target_dscr", "percent_of_cost", "none"},
            amortization : {"level", "sculpted"},
            interest_rate_pct : {0, 1200},
            tenor_years : {1, 2}] :
        \* keeps (1 + r)^n below 2^31
        /\ f.interest_rate_pct > 0 => f.tenor_years <= 1
        /\ ~f.use_debt =>
              /\ f.sizing_method = "percent_of_cost"
              /\ f.amortization = "sculpted"
              /\ f.interest_rate_pct = 1200
              /\ f.tenor_years = 1}

TaxVariants ==
    [mode : TaxCreditModes,
     bonus_depreciation_pct : {0, 50},
     buyout_years : {<<>>, <<1>>, <<1, 2>>}]

BaseRevenueVariant ==
    [mode |-> "community_solar", active |-> "none", enabled |-> TRUE,
     use_8760 |-> FALSE]

BaseCostVariant ==
    [land_mode |-> "lease", pilot_enabled |-> FALSE,
     developer_fee_timing |-> "COD"]

BaseFinancingVariant ==
    [use_debt |-> TRUE, sizing_method |-> "percent_of_cost",
     amortization |-> "sculpted", interest_rate_pct |-> 1200,
     tenor_years |-> 1]

BaseTaxVariant ==
    [mode |-> "ITC", bonus_depreciation_pct |-> 0, buyout_years |-> <<1>>]

FeeVariants ==
    [mgmt_fee_usd_per_acct_month : {0, 2, 5},
     acquisition_cost_usd_per_subscriber : {0, 120}]

FeeRevenueVariants ==
    {r \in RevenueVariants :
        /\ r.mode = "community_solar"
        /\ r.active \in {"none", "nj_csep"}
        /\ r.enabled
        /\ ~r.use_8760}

WithFees(inp, s) ==
    [inp EXCEPT
        !.community_solar.mgmt_fee_usd_per_acct_month =
            s.mgmt_fee_usd_per_acct_month,
        !.community_solar.acquisition_cost_usd_per_subscriber =
            s.acquisition_cost_usd_per_subscriber]

Configure(h, r, c, f, t) ==
    [BaseInputs EXCEPT
        !.project.construction_months = h.construction_months,
        !.project.model_years = h.model_years,
        !.project.mode = r.mode,
        !.program.active = r.active,
        \* _validate_inputs rejects more than one enabled program
        !.program.ny_vder.enabled = (r.enabled /\ r.active = "ny_vder"),
        !.program.nj_csep.enabled = (r.enabled /\ r.active = "nj_csep"),
        !.program.il_abp.enabled = (r.enabled /\ r.active = "il_abp"),
        !.sizing.use_8760 = r.use_8760,
        !.land.mode = c.land_mode,
        !.property_tax_pilot.pilot_enabled = c.pilot_enabled,
        !.developer.developer_fee_timing = c.developer_fee_timing,
        !.financing.use_debt = f.use_debt,
        !.financing.sizing_method = f.sizing_method,
        !.financing.amortization = f.amortization,
        !.financing.interest_rate_pct = f.interest_rate_pct,
        !.financing.tenor_years = f.tenor_years,
        !.tax_credits.mode = t.mode,
        !.tax_credits.bonus_depreciation_pct = t.bonus_depreciation_pct,
        !.exit.buyout_years = t.buyout_years]

RunInputs ==
    {Configure(h, r, c, f, t) :
        h \in Horizons,
        <<r, c, f, t>> \in
            (RevenueVariants \X {BaseCostVariant} \X {BaseFinancingVariant}
                 \X {BaseTaxVariant})
            \cup ({BaseRevenueVariant} \X CostVariants \X {BaseFinancingVariant}
                      \X {BaseTaxVariant})
            \cup ({BaseRevenueVariant} \X {BaseCostVariant} \X FinancingVariants
                      \X {BaseTaxVariant})
            \cup ({BaseRevenueVariant} \X {BaseCostVariant}
                      \X {BaseFinancingVariant} \X TaxVariants)}
    \cup {WithFees(Configure(h, r, BaseCostVariant, BaseFinancingVariant,
                             BaseTaxVariant), s) :
              h \in Horizons, r \in FeeRevenueVariants, s \in FeeVariants}

(***************************************************************************)
(* SolarFinancialModel.run (src/model/runner.py), one action per step of   *)
(* the method.  energy_df and revenue_df are the same table in the code.   *)
(***************************************************************************)
Init ==
    /\ inputs \in RunInputs
    /\ pc = "step1_energy"
    /\ energy_df = NoFrame
    /\ cashflow_df = NoFrame
    /\ NoItcLocals
    /\ NoDebtLocals
    /\ NoRunLocals

RunEnergy ==
    /\ pc = "step1_energy"
    /\ energy_df' = calculate_monthly_energy(inputs.project, inputs.sizing)
    /\ pc' = "step2_opex"
    /\ UNCHANGED <<inputs, itcLocals, cashflow_df, debtLocals, runLocals>>

RunOpex ==
    /\ pc = "step2_opex"
    /\ energy_df' = OpexStep(inputs, energy_df)
    /\ pc' = "step3_revenue"
    /\ UNCHANGED <<inputs, itcLocals, cashflow_df, debtLocals, runLocals>>

RunRevenue ==
    /\ pc = "step3_revenue"
    /\ energy_df' = calculate_revenue(inputs, energy_df)
    /\ pc' = "step4_capex"
    /\ UNCHANGED <<inputs, itcLocals, cashflow_df, debtLocals, runLocals>>

RunCapex ==
    /\ pc = "step4_capex"
    /\ total_months' = Cardinality(FrameRows(energy_df))
    /\ capex_df' = create_capex_schedule(inputs, total_months')
    /\ upfront_grants' = get_upfront_grants(inputs)[1]
    /\ grants_timing' = get_upfront_grants(inputs)[2]
    /\ pc' = "step5_tax_credits"
    /\ UNCHANGED <<inputs, depreciable_basis_before_itc, itc_amount,
                   depreciable_basis_after_itc, cashflow_df, debt_principal,
                   debt_df, energy_df, depreciation_df, idc_amount,
                   reserves_df, metrics>>

RunTaxCredits ==
    /\ pc = "step5_tax_credits"
    /\ depreciable_basis_before_itc' = get_depreciable_basis(inputs)
    /\ itc_amount' = calculate_itc(inputs.tax_credits,
                                   depreciable_basis_before_itc',
                                   upfront_grants)[1]
    /\ depreciable_basis_after_itc' = calculate_itc(inputs.tax_credits,
                                          depreciable_basis_before_itc',
                                          upfront_grants)[2]
    /\ depreciation_df' = calculate_depreciation(inputs,
                              depreciable_basis_after_itc', total_months)
    /\ energy_df' = calculate_ptc(inputs.tax_credits, energy_df)
    /\ pc' = "step6_debt"
    /\ UNCHANGED <<inputs, upfront_grants, cashflow_df, debtLocals, capex_df,
                   grants_timing, idc_amount, reserves_df, metrics>>

CfadsEstimate(energy) ==
    [i \in FrameRows(energy) |->
        energy["total_revenue"][i] - energy["total_opex"][i]]

DebtServiceRows(debt) ==
    {i \in FrameRows(debt) : debt["total_debt_service"][i] > 0}

AddIdcAtCod(capex_schedule, construction_months, idc) ==
    [capex_schedule EXCEPT
        !["total_capex"][construction_months - 1] = @ + idc]

RunDebt ==
    /\ pc = "step6_debt"
    /\ debt_principal' =
           size_debt(inputs.financing,
                     Mean(CfadsEstimate(energy_df), OperatingRows(energy_df)).value,
                     calculate_total_capex(inputs))
    /\ debt_df' = calculate_debt_service(inputs.financing,
                                         inputs.project.construction_months,
                                         debt_principal', total_months)
    /\ idc_amount' = calculate_idc(inputs, capex_df, debt_principal')
    /\ IF inputs.project.construction_months - 1 \in FrameRows(capex_df)
       THEN /\ capex_df' = AddIdcAtCod(capex_df,
                                       inputs.project.construction_months,
                                       idc_amount')
            /\ reserves_df' =
                   calculate_reserves(inputs,
                       Mean(energy_df["total_opex"], OperatingRows(energy_df)),
                       Mean(debt_df'["total_debt_service"], DebtServiceRows(debt_df')),
                       total_months)
            /\ pc' = "step7_cashflow"
       ELSE \* capex_df.loc[-1, 'total_capex'] raises KeyError
            /\ pc' = "KeyError"
            /\ UNCHANGED <<capex_df, reserves_df>>
    /\ UNCHANGED <<inputs, itcLocals, cashflow_df, total_months, energy_df,
                   grants_timing, depreciation_df, metrics>>

RunCashflow ==
    /\ pc = "step7_cashflow"
    /\ cashflow_df' = build_cashflow(inputs, energy_df, capex_df, debt_df,
                                     depreciation_df, reserves_df, itc_amount,
                                     upfront_grants, grants_timing)
    /\ pc' = "step8_taxes"
    /\ UNCHANGED <<inputs, itcLocals, debtLocals, energy_df, runLocals>>

RunTaxes ==
    /\ pc = "step8_taxes"
    /\ cashflow_df' = SecondPass(inputs, cashflow_df)
    /\ pc' = "step9_dscr"
    /\ UNCHANGED <<inputs, itcLocals, debtLocals, energy_df, runLocals>>

RunDscr ==
    /\ pc = "step9_dscr"
    /\ cashflow_df' = calculate_dscr(cashflow_df)
    /\ pc' = "step10_terminal_value"
    /\ UNCHANGED <<inputs, itcLocals, debtLocals, energy_df, runLocals>>

RunTerminalValue ==
    /\ pc = "step10_terminal_value"
    /\ cashflow_df' = AddTerminalValueToDistribution(
                          add_terminal_value(inputs, cashflow_df))
    /\ pc' = "step11_metrics"
    /\ UNCHANGED <<inputs, itcLocals, debtLocals, energy_df, runLocals>>

RunMetrics ==
    /\ pc = "step11_metrics"
    /\ metrics' = calculate_all_metrics(cashflow_df)
    /\ pc' = "done"
    /\ UNCHANGED <<inputs, itcLocals, cashflow_df, debtLocals, energy_df,
                   capex_df, grants_timing, depreciation_df, idc_amount,
                   reserves_df>>

Next ==
    \/ RunEnergy
    \/ RunOpex
    \/ RunRevenue
    \/ RunCapex
    \/ RunTaxCredits
    \/ RunDebt
    \/ RunCashflow
    \/ RunTaxes
    \/ RunDscr
    \/ RunTerminalValue
    \/ RunMetrics

Spec == Init /\ [][Next]_vars

(***************************************************************************)
(* SolarFinancialModel.run: properties of the returned cashflow table      *)
(***************************************************************************)
Returned == pc = "done"

ExitRows(cf) == {i \in FrameRows(cf) : cf["terminal_value"][i] # 0}

SplitMirrorsFcfe(cf, i) ==
    /\ cf["equity_contribution"][i] > 0 => cf["equity_distribution"][i] = 0
    /\ cf["equity_distribution"][i] > 0 => cf["equity_contribution"][i] = 0
    /\ cf["equity_distribution"][i] - cf["equity_contribution"][i]
           = cf["fcfe"][i]

\* C1 as stated: in the table returned by run(), in every period, a positive
\* equity contribution implies a zero equity distribution, a positive equity
\* distribution implies a zero equity contribution, and distribution minus
\* contribution equals the period's FCFE.
EquitySplitMirrorsFcfe ==
    Returned => \A i \in FrameRows(cashflow_df) : SplitMirrorsFcfe(cashflow_df, i)

\* C1 amended: in the table returned by run(), in every period the equity
\* contribution is the negative part of FCFE and distribution minus
\* contribution equals FCFE plus the period's terminal value; in every period
\* whose terminal value is zero the three properties of C1 hold.
EquitySplitWithTerminalValue ==
    Returned =>
        \A i \in FrameRows(cashflow_df) :
            /\ cashflow_df["equity_contribution"][i]
                   = (IF cashflow_df["fcfe"][i] < 0
                      THEN -cashflow_df["fcfe"][i] ELSE 0)
            /\ cashflow_df["equity_distribution"][i]
                   - cashflow_df["equity_contribution"][i]
                   = cashflow_df["fcfe"][i] + cashflow_df["terminal_value"][i]
            /\ i \notin ExitRows(cashflow_df) => SplitMirrorsFcfe(cashflow_df, i)

\* A returned table with a period of contribution, a period of distribution
\* outside the exit period, and an exit period carrying a terminal value.
EquitySplitWithTerminalValueWitness ==
    /\ Returned
    /\ ExitRows(cashflow_df) # {}
    /\ \E i \in FrameRows(cashflow_df) \ ExitRows(cashflow_df) :
           cashflow_df["equity_contribution"][i] > 0
    /\ \E i \in FrameRows(cashflow_df) \ ExitRows(cashflow_df) :
           cashflow_df["equity_distribution"][i] > 0

(***************************************************************************)
(* SolarFinancialModel.run: the construction period                        *)
(***************************************************************************)
IndexColumns == {"period", "date", "month_in_operation", "year_in_operation"}

ConstructionPeriods(df) ==
    {i \in FrameRows(df) : df["month_in_operation"][i] = 0}

\* the energy, operating-cost and revenue columns of the table
ScheduleColumns(df) == DOMAIN df \ (IndexColumns \cup {"ptc_amount"})

\* C6: in every period with month_in_operation = 0, the energy columns, every
\* revenue stream and total_revenue, every operating-cost component and
\* total_opex, and federal and state depreciation are zero, in every revenue
\* mode, program overlay, land mode and property-tax mode.
ZeroDuringConstruction ==
    /\ energy_df # NoFrame =>
           \A i \in ConstructionPeriods(energy_df) :
               \A c \in ScheduleColumns(energy_df) : energy_df[c][i] = 0
    /\ depreciation_df # NoFrame =>
           \A i \in ConstructionPeriods(energy_df) :
               /\ depreciation_df["depreciation_federal"][i] = 0
               /\ depreciation_df["depreciation_state"][i] = 0

\* A run with a construction period whose operating months carry energy,
\* revenue, operating cost and depreciation.
ZeroDuringConstructionWitness ==
    /\ Returned
    /\ ConstructionPeriods(energy_df) # {}
    /\ \E i \in FrameRows(energy_df) :
           /\ energy_df["ac_kwh"][i] > 0
           /\ energy_df["dc_kwh"][i] > 0
           /\ energy_df["total_revenue"][i] > 0
           /\ energy_df["total_opex"][i] > 0
           /\ \A c \in OpexColumns \ {"inverter_replacement"} :
                  energy_df[c][i] > 0
           /\ depreciation_df["depreciation_federal"][i] > 0
           /\ depreciation_df["depreciation_state"][i] > 0

(***************************************************************************)
(* EnergyModel.calculate_monthly_energy: properties                        *)
(***************************************************************************)
GridRows == DOMAIN energy_df["period"]

YearTotal(col, year) ==
    SumCol([i \in GridRows |->
               IF energy_df["year_in_operation"][i] = year
               THEN energy_df[col][i]
               ELSE 0])

\* C7: the grid has construction_months + model_years x 12 rows with period
\* indices 0..N-1 in order; month_in_operation is 0 before
\* construction_months and period - construction_months + 1 from there on,
\* so exactly model_years x 12 periods are operating periods.
PeriodGridShape ==
    pc = "energy_returned" =>
        LET cm == inputs.project.construction_months
            n == cm + inputs.project.model_years * 12
        IN  /\ GridRows = 0 .. (n - 1)
            /\ \A c \in DOMAIN energy_df : DOMAIN energy_df[c] = GridRows
            /\ \A i \in GridRows :
                  /\ energy_df["period"][i] = i
                  /\ i < cm => energy_df["month_in_operation"][i] = 0
                  /\ i >= cm => energy_df["month_in_operation"][i] = i - cm + 1
            /\ Cardinality({i \in GridRows :
                               energy_df["month_in_operation"][i] > 0})
                  = inputs.project.model_years * 12

PeriodGridShapeWitness ==
    /\ pc = "energy_returned"
    /\ inputs.project.construction_months = 2
    /\ inputs.project.model_years = 2
    /\ Cardinality(GridRows) = 26
    /\ energy_df["month_in_operation"][1] = 0
    /\ energy_df["month_in_operation"][2] = 1
    /\ energy_df["month_in_operation"][25] = 24

\* C8: in synthetic mode at 0.5 %/year degradation, for every operating year
\* N of the horizon the ac_kwh of the periods labelled year_in_operation = N
\* add up to the year-1 total x (1 - 0.005 x (N - 1)), within 1%.
DegradationByOperatingYear ==
    ( /\ pc = "energy_returned"
      /\ ~UsesProfile(inputs.sizing)
      /\ inputs.sizing.degradation_bp_per_year = 50 )
    => \A N \in 1 .. inputs.project.model_years :
          LET expected == (YearTotal("ac_kwh", 1) \div 200) * (200 - (N - 1))
          IN  100 * Abs(YearTotal("ac_kwh", N) - expected) <= expected

\* C9: the degradation factor 1 - rate x (operating year - 1) applied to an
\* operating period is never negative, and so neither are ac_kwh and dc_kwh,
\* in synthetic and in profile-based mode.
DegradationNeverNegative ==
    pc = "energy_returned" =>
        \A i \in GridRows :
            /\ energy_df["month_in_operation"][i] > 0 =>
                  DegradationFactorBp(inputs.sizing,
                                      energy_df["year_in_operation"][i]) >= 0
            /\ energy_df["ac_kwh"][i] >= 0
            /\ energy_df["dc_kwh"][i] >= 0

(***************************************************************************)
(* TaxModel.calculate_itc: properties                                      *)
(***************************************************************************)
\* C10: in mode 'ITC' the credit is (basis, less grants only when the flag is
\* set and grants > 0) x (itc_pct + adders_pct) and the depreciation basis is
\* the original basis less credit x basis_reduction_pct (10,000,000 at
\* 30% + 10% with 50% reduction: credit 4,000,000, basis 8,000,000); in any
\* other mode the credit is 0 and the basis is returned unchanged.
ItcContract ==
    pc = "itc_returned" =>
        LET tc == inputs.tax_credits
            basis == depreciable_basis_before_itc
            eligible == IF tc.reduce_itc_basis_for_grants /\ upfront_grants > 0
                        THEN basis - upfront_grants
                        ELSE basis
        IN  /\ tc.mode = "ITC" =>
                  /\ itc_amount * 100 = eligible * (tc.itc_pct + tc.adders_pct)
                  /\ (basis - depreciable_basis_after_itc) * 100
                        = itc_amount * tc.basis_reduction_pct
            /\ tc.mode # "ITC" =>
                  /\ itc_amount = 0
                  /\ depreciable_basis_after_itc = basis
            /\ ( /\ tc.mode = "ITC"
                 /\ basis = 10000000
                 /\ tc.itc_pct = 30
                 /\ tc.adders_pct = 10
                 /\ tc.basis_reduction_pct = 50
                 /\ ~tc.reduce_itc_basis_for_grants )
               => /\ itc_amount = 4000000
                  /\ depreciable_basis_after_itc = 8000000

ItcContractWitness ==
    /\ pc = "itc_returned"
    /\ inputs.tax_credits.mode = "ITC"
    /\ inputs.tax_credits.reduce_itc_basis_for_grants
    /\ upfront_grants = 500000
    /\ depreciable_basis_before_itc = 10000000
    /\ itc_amount = 3800000
    /\ depreciable_basis_after_itc = 8100000

(***************************************************************************)
(* TaxModel.calculate_taxes: properties                                    *)
(***************************************************************************)
NolBefore(t) == IF t = 0 THEN 0 ELSE cashflow_df["nol_balance"][t - 1]

TaxedRows == DOMAIN cashflow_df["taxable_income"]

\* C4: the scan starts with an NOL balance of 0; a loss period adds its
\* magnitude to the balance and owes no tax; any other period uses
\* min(balance, taxable income) of the NOL, reduces the balance by it and owes
\* federal and state tax, each at its own rate, on the remainder.
TaxScanContract ==
    pc = "taxes_returned" =>
        \A t \in TaxedRows :
            LET ti == cashflow_df["taxable_income"][t]
                used == Min(NolBefore(t), ti)
            IN  IF ti < 0
                THEN /\ cashflow_df["nol_balance"][t] = NolBefore(t) - ti
                     /\ cashflow_df["federal_tax"][t] = 0
                     /\ cashflow_df["state_tax"][t] = 0
                     /\ cashflow_df["total_tax"][t] = 0
                ELSE /\ cashflow_df["nol_utilized"][t] = used
                     /\ cashflow_df["nol_balance"][t] = NolBefore(t) - used
                     /\ cashflow_df["federal_tax"][t] * 100
                           = (ti - used) * inputs.taxes.federal_tax_rate_pct
                     /\ cashflow_df["state_tax"][t] * 100
                           = (ti - used) * inputs.taxes.state_tax_rate_pct
                     /\ cashflow_df["total_tax"][t]
                           = cashflow_df["federal_tax"][t]
                             + cashflow_df["state_tax"][t]

TaxScanContractWitness ==
    /\ pc = "taxes_returned"
    /\ inputs.taxes.federal_tax_rate_pct = 21
    /\ inputs.taxes.state_tax_rate_pct = 6
    /\ \E t \in TaxedRows :
          /\ t > 0
          /\ cashflow_df["taxable_income"][t - 1] = -100
          /\ cashflow_df["taxable_income"][t] = 300
          /\ cashflow_df["nol_utilized"][t] = 100
          /\ cashflow_df["nol_balance"][t] = 0
          /\ cashflow_df["total_tax"][t] = 54

\* C5: after every period the NOL balance is >= 0; it rises only in a loss
\* period and falls only in a period of positive taxable income, by at most
\* that income; total_tax is never negative and is 0 in every loss period.
NolInvariant ==
    pc = "taxes_returned" =>
        \A t \in TaxedRows :
            LET ti == cashflow_df["taxable_income"][t]
                bal == cashflow_df["nol_balance"][t]
            IN  /\ bal >= 0
                /\ bal > NolBefore(t) => ti < 0
                /\ bal < NolBefore(t) => ti > 0 /\ NolBefore(t) - bal <= ti
                /\ cashflow_df["total_tax"][t] >= 0
                /\ ti < 0 => cashflow_df["total_tax"][t] = 0

NolInvariantWitness ==
    /\ pc = "taxes_returned"
    /\ inputs.taxes.federal_tax_rate_pct = 21
    /\ \E s, t \in TaxedRows :
          /\ s < t
          /\ cashflow_df["taxable_income"][s] = -200
          /\ cashflow_df["nol_balance"][s] > NolBefore(s)
          /\ cashflow_df["taxable_income"][t] = 100
          /\ cashflow_df["nol_balance"][t] = NolBefore(t) - 100
          /\ cashflow_df["nol_balance"][t] > 0
          /\ cashflow_df["total_tax"][t] = 0

(***************************************************************************)
(* TaxModel.calculate_depreciation called on its own                       *)
(***************************************************************************)
MaxDeprUnits == 2

\* operating years of the horizon: none, one, the 5-year table's six
\* entries, the 7-year table's eight entries
DeprOperatingYears == {0, 1, 6, 8}

\* multiples of 100 * 100 * 12 * 4: every share, rate and month is whole
DeprBases == {k * 480000 : k \in 0 .. MaxDeprUnits}

BonusPcts == {0, 25, 50, 100}

DeprScheduleNames == {"MACRS_5yr", "MACRS_7yr", "straight_line"}

\* the horizon ends on a year boundary or five months into a year
DeprHorizons ==
    [construction_months : 0 .. MaxConstructionMonths,
     operating_years : DeprOperatingYears,
     extra_months : {0, 5}]

InitDepr ==
    /\ \E h \in DeprHorizons, name \in DeprScheduleNames, b \in BonusPcts :
           /\ inputs = [BaseInputs EXCEPT
                  !.project.construction_months = h.construction_months,
                  !.taxes.depr_schedule = name,
                  !.tax_credits.bonus_depreciation_pct = b]
           /\ total_months = h.construction_months + 12 * h.operating_years
                                 + h.extra_months
    /\ depreciable_basis_after_itc \in DeprBases
    /\ depreciable_basis_before_itc = 0
    /\ upfront_grants = 0
    /\ itc_amount = 0
    /\ debt_principal = 0
    /\ debt_df = NoFrame
    /\ pc = "calculate_depreciation"
    /\ energy_df = NoFrame
    /\ cashflow_df = NoFrame
    /\ NoRunLocals

CallCalculateDepreciation ==
    /\ pc = "calculate_depreciation"
    /\ depreciation_df' = calculate_depreciation(inputs,
                              depreciable_basis_after_itc, total_months)
    /\ pc' = "depreciation_returned"
    /\ UNCHANGED <<inputs, itcLocals, cashflow_df, debtLocals, energy_df,
                   capex_df, grants_timing, idc_amount, reserves_df, metrics>>

NextDepr == CallCalculateDepreciation

SpecDepr == InitDepr /\ [][NextDepr]_vars

(***************************************************************************)
(* TaxModel.calculate_depreciation: properties                             *)
(***************************************************************************)
DeprReturned == pc = "depreciation_returned"

OperatingMonths == total_months - inputs.project.construction_months

ScheduleLen == Len(DepreciationSchedule(inputs.taxes))

\* the amount of schedule year y (1-based): basis times the year's rate, the
\* bonus share taken whole in year 1 and the rates applied to the remainder
ScheduleYearAmount(y) ==
    LET basis == depreciable_basis_after_itc
        bonus == Pct(basis, inputs.tax_credits.bonus_depreciation_pct)
        rate == DepreciationSchedule(inputs.taxes)[y]
    IN  (IF y = 1 THEN bonus ELSE 0) + Bp(basis - bonus, rate)

\* C11: each MACRS table sums to 1.0 (10000 basis points); the cumulative
\* federal depreciation over every prefix of periods never exceeds the basis;
\* it equals the basis when the operating horizon covers the whole schedule;
\* every month of schedule year y carries one twelfth of that year's amount.
DepreciationWithinBasis ==
    /\ SeqSum(MACRS_5YR) = 10000
    /\ SeqSum(MACRS_7YR) = 10000
    /\ DeprReturned =>
           /\ \A n \in 0 .. total_months :
                  SumTo(depreciation_df["depreciation_federal"], n)
                      <= depreciable_basis_after_itc
           /\ OperatingMonths >= 12 * ScheduleLen =>
                  SumCol(depreciation_df["depreciation_federal"])
                      = depreciable_basis_after_itc
           /\ \A i \in FrameRows(depreciation_df) :
                  LET m == i - inputs.project.construction_months
                  IN  m >= 0 /\ m \div 12 < ScheduleLen =>
                          12 * depreciation_df["depreciation_federal"][i]
                              = ScheduleYearAmount(m \div 12 + 1)

\* A call with a construction period, a positive basis, a bonus share and a
\* horizon that covers the whole schedule.
DepreciationWithinBasisWitness ==
    /\ DeprReturned
    /\ inputs.project.construction_months > 0
    /\ depreciable_basis_after_itc > 0
    /\ inputs.tax_credits.bonus_depreciation_pct = 25
    /\ inputs.taxes.depr_schedule = "MACRS_7yr"
    /\ OperatingMonths >= 12 * ScheduleLen
    /\ SumCol(depreciation_df["depreciation_federal"])
           = depreciable_basis_after_itc

(***************************************************************************)
(* SolarFinancialModel.run: the dscr column of the returned table          *)
(***************************************************************************)
\* C12: in the returned table, where total_debt_service > 0 the dscr is the
\* second-pass (post-tax) CFADS of the period over total_debt_service, and
\* where total_debt_service = 0 the dscr is None.
DscrContract ==
    Returned =>
        \A i \in FrameRows(cashflow_df) :
            /\ cashflow_df["cfads"][i] = Cfads(cashflow_df, i)
            /\ cashflow_df["total_debt_service"][i] > 0 =>
                   cashflow_df["dscr"][i] =
                       [defined |-> TRUE,
                        num |-> cashflow_df["cfads"][i],
                        den |-> cashflow_df["total_debt_service"][i]]
            /\ cashflow_df["total_debt_service"][i] = 0 =>
                   cashflow_df["dscr"][i] = None

\* A returned table with a taxed period that carries debt service and a
\* period without debt service.
DscrContractWitness ==
    /\ Returned
    /\ \E i \in FrameRows(cashflow_df) :
           /\ cashflow_df["total_debt_service"][i] > 0
           /\ cashflow_df["total_tax"][i] > 0
           /\ cashflow_df["dscr"][i].defined
    /\ \E i \in FrameRows(cashflow_df) :
           /\ cashflow_df["total_debt_service"][i] = 0
           /\ cashflow_df["dscr"][i] = None

(***************************************************************************)
(* RevenueModel: the PPA merchant tail and total_revenue                   *)
(***************************************************************************)
RevenueComputed ==
    /\ energy_df # NoFrame
    /\ "total_revenue" \in DOMAIN energy_df

\* every revenue stream column the revenue step has put in the table
RevenueStreamColumns(df) ==
    ((DOMAIN df) \cap (NamedRevenueColumns \cup ListedRevenueColumns))
        \ {"total_revenue"}

PpaTailRows(df) ==
    {i \in FrameRows(df) :
        /\ df["month_in_operation"][i] > 0
        /\ df["year_in_operation"][i] > inputs.ppa.ppa_term_years}

\* C13 as stated: in PPA mode the energy of every operating period after the
\* contract term is priced at ppa_price * (1 + escalator)^(term - 1), that
\* amount is part of total_revenue, and total_revenue is the sum of all
\* computed revenue stream columns in every period.
PpaTailInTotalRevenue ==
    (RevenueComputed /\ inputs.project.mode = "ppa") =>
        /\ \A i \in PpaTailRows(energy_df) :
               energy_df["merchant_revenue"][i] =
                   energy_df["ac_mwh"][i]
                       * Escalate(inputs.ppa.ppa_price_usd_per_mwh,
                                  inputs.ppa.ppa_escalator_pct,
                                  inputs.ppa.ppa_term_years - 1)
        /\ \A i \in FrameRows(energy_df) :
               energy_df["total_revenue"][i] =
                   SumOver(energy_df, RevenueStreamColumns(energy_df), i)

(***************************************************************************)
(* DebtModel.calculate_debt_service: an unrecognized amortization name     *)
(***************************************************************************)
ServicePeriods ==
    {p \in FrameRows(debt_df) :
        /\ p >= inputs.project.construction_months
        /\ p - inputs.project.construction_months
               < TenorMonths(inputs.financing)}

\* C14 as stated (debt half): with an amortization name that is neither
\* 'level' nor 'sculpted' the schedule is the level one: the payment is the
\* same in every period of the tenor and principal = payment - interest.
UnknownAmortizationIsLevel ==
    (/\ pc = "debt_service_returned"
     /\ inputs.financing.use_debt
     /\ debt_principal > 0
     /\ inputs.financing.amortization \notin {"level", "sculpted"}) =>
        \A p, q \in ServicePeriods :
            /\ debt_df["total_debt_service"][p] = debt_df["total_debt_service"][q]
            /\ debt_df["principal_payment"][p] =
                   debt_df["total_debt_service"][q] - debt_df["interest_payment"][p]

(***************************************************************************)
(* SolarFinancialModel.run: degenerate inputs                              *)
(***************************************************************************)
\* C15 as stated (first item): run() handles every listed degenerate input,
\* construction_months = 0 among them, without raising: no step of the
\* pipeline ends in an exception.
RunNeverRaises == pc # "KeyError"

(***************************************************************************)
(* DebtModel.size_debt called on its own                                   *)
(***************************************************************************)
MaxCfadsUnits == 2

\* monthly CFADS in units of 5 * 4096, so that the payment at a target DSCR
\* of 1.25 and the annuity factor 4095/4096 are whole
CfadsSeries ==
    {<<-20480>>, <<0, 0>>, <<0, 40960>>}
        \cup {<<k * 20480, k * 20480, k * 20480>> : k \in 1 .. MaxCfadsUnits}

SizingFinancing ==
    {f \in [use_debt : BOOLEAN,
            sizing_method : {"target_dscr", "percent_of_cost", "sculpted_dscr"},
            target_min_dscr_pct : {100, 125},
            debt_pct_of_cost : {60, 100},
            interest_rate_pct : {0, 1200},
            tenor_years : {1, 2}] :
        \* keeps (1 + r)^n below 2^31
        f.interest_rate_pct > 0 => f.tenor_years <= 1}

SizingCapex == {10000, 100000, 1000000}

InitSizeDebt ==
    /\ inputs \in [financing : SizingFinancing,
                   cfads_series : CfadsSeries,
                   total_capex : SizingCapex]
    /\ pc = "size_debt"
    /\ NoItcLocals
    /\ NoDebtLocals
    /\ cashflow_df = NoFrame
    /\ energy_df = NoFrame
    /\ NoRunLocals

SeriesMean(series) ==
    Mean([i \in 0 .. Len(series) - 1 |-> series[i + 1]],
         0 .. Len(series) - 1).value

CallSizeDebt ==
    /\ pc = "size_debt"
    /\ debt_principal' = size_debt(inputs.financing,
                                   SeriesMean(inputs.cfads_series),
                                   inputs.total_capex)
    /\ pc' = "size_debt_returned"
    /\ UNCHANGED <<inputs, itcLocals, cashflow_df, total_months, debt_df,
                   energy_df, runLocals>>

NextSizeDebt == CallSizeDebt

SpecSizeDebt == InitSizeDebt /\ [][NextSizeDebt]_vars

(***************************************************************************)
(* DebtModel.size_debt: properties                                         *)
(***************************************************************************)
\* the principal of the claim: payment * ((1+r)^n - 1) / (r (1+r)^n) with
\* payment = mean CFADS / target DSCR; payment * n when r = 0
AnnuityPrincipal(financing, series) ==
    LET r == InterestRateMonthly(financing)
        n == TenorMonths(financing)
        payment == (SeqSum(series) * 100)
                       \div (financing.target_min_dscr_pct * Len(series))
    IN  IF r > 0
        THEN (payment * (Pow(1 + r, n) - 1)) \div (r * Pow(1 + r, n))
        ELSE payment * n

\* the quotients of AnnuityPrincipal are whole on the inputs of SpecSizeDebt
AnnuityPrincipalIsExact(financing, series) ==
    LET r == InterestRateMonthly(financing)
        n == TenorMonths(financing)
        payment == (SeqSum(series) * 100)
                       \div (financing.target_min_dscr_pct * Len(series))
    IN  /\ payment * financing.target_min_dscr_pct * Len(series)
               = SeqSum(series) * 100
        /\ r > 0 => (payment * (Pow(1 + r, n) - 1)) % (r * Pow(1 + r, n)) = 0

SizeDebtCapBinds ==
    /\ pc = "size_debt_returned"
    /\ inputs.financing.use_debt
    /\ inputs.financing.sizing_method = "target_dscr"
    /\ debt_principal < AnnuityPrincipal(inputs.financing, inputs.cfads_series)

(***************************************************************************)
(* MetricsCalculator.calculate_payback called on its own                   *)
(***************************************************************************)
MaxPaybackPeriods == 3

PaybackTable(n, contribution, distribution) ==
    [c \in {"period", "equity_contribution", "equity_distribution"} |->
        CASE c = "period" -> [i \in Rows(n) |-> i]
          [] c = "equity_contribution" -> contribution
          [] c = "equity_distribution" -> distribution]

PaybackTables ==
    UNION {{PaybackTable(n, contribution, distribution) :
                contribution \in [Rows(n) -> {0, 50, 100}],
                distribution \in [Rows(n) -> {0, 50, 100}]} :
           n \in 0 .. MaxPaybackPeriods}

InitPayback ==
    /\ cashflow_df \in PaybackTables
    /\ inputs = BaseInputs
    /\ pc = "calculate_payback"
    /\ NoItcLocals
    /\ NoDebtLocals
    /\ energy_df = NoFrame
    /\ NoRunLocals

CallCalculatePayback ==
    /\ pc = "calculate_payback"
    /\ metrics' = [payback_years |-> calculate_payback(cashflow_df)]
    /\ pc' = "payback_returned"
    /\ UNCHANGED <<inputs, itcLocals, cashflow_df, debtLocals, energy_df,
                   capex_df, grants_timing, depreciation_df, idc_amount,
                   reserves_df>>

NextPayback == CallCalculatePayback

SpecPayback == InitPayback /\ [][NextPayback]_vars

(***************************************************************************)
(* MetricsCalculator.calculate_payback: properties                         *)
(***************************************************************************)
\* running sum of equity_distribution - equity_contribution over 0..k
NetEquityTo(cf, k) ==
    SumTo(cf["equity_distribution"], k + 1)
        - SumTo(cf["equity_contribution"], k + 1)

\* C17: calculate_payback returns (k + 1) / 12 for the smallest period k whose
\* running net equity cashflow over 0..k is strictly positive, and NaN
\* exactly when there is no such period.
PaybackContract ==
    pc = "payback_returned" =>
        LET positive == {k \in FrameRows(cashflow_df) :
                            NetEquityTo(cashflow_df, k) > 0}
        IN  /\ metrics.payback_years.nan <=> positive = {}
            /\ \A k \in positive :
                   (\A j \in positive : k <= j) =>
                       /\ metrics.payback_years.num = k + 1
                       /\ metrics.payback_years.den = 12

\* The running sum is exactly zero in one period and turns positive later.
PaybackContractWitness ==
    /\ pc = "payback_returned"
    /\ ~metrics.payback_years.nan
    /\ \E k \in FrameRows(cashflow_df) :
           /\ NetEquityTo(cashflow_df, k) = 0
           /\ cashflow_df["equity_contribution"][k] > 0
           /\ metrics.payback_years.num > k + 1

\* No period of a non-empty table has a positive running sum.
PaybackUndefinedWitness ==
    /\ pc = "payback_returned"
    /\ metrics.payback_years.nan
    /\ FrameRows(cashflow_df) # {}

(***************************************************************************)
(* MetricsCalculator.calculate_lcoe: the discounted cost series            *)
(***************************************************************************)
\* C18 as stated: in every period the cost series of calculate_lcoe is
\* capital cost + operating cost + total debt service, net of the ITC
\* credit, net of the period's PTC amount and net of upfront grants.
LcoeCostsNetOfPtc ==
    Returned =>
        \A i \in FrameRows(cashflow_df) :
            LcoeCosts(cashflow_df)[i] =
                cashflow_df["total_capex"][i] + cashflow_df["total_opex"][i]
                + cashflow_df["total_debt_service"][i]
                - cashflow_df["itc_credit"][i]
                - cashflow_df["ptc_amount"][i]
                - cashflow_df["upfront_grants"][i]

(***************************************************************************)
(* MetricsCalculator.calculate_xirr called on its own.  The root finder is *)
(* a library call: its outcome is chosen by the environment.               *)
(***************************************************************************)
MaxXirrPeriods == 3

\* run() reaches the metrics only with a table of at least one period
XirrCashflows ==
    UNION {[Rows(n) -> {-100, 0, 100}] : n \in 1 .. MaxXirrPeriods}

NewtonOutcomes ==
    {[raised |-> TRUE, error |-> "RuntimeError", root |-> 0],
     [raised |-> TRUE, error |-> "OverflowError", root |-> 0],
     [raised |-> TRUE, error |-> "ZeroDivisionError", root |-> 0]}
        \cup {[raised |-> FALSE, error |-> "", root |-> r] : r \in {-50, 0, 12}}

InitXirr ==
    /\ inputs \in [cashflows : XirrCashflows, newton : NewtonOutcomes]
    /\ pc = "calculate_xirr"
    /\ NoItcLocals
    /\ NoDebtLocals
    /\ cashflow_df = NoFrame
    /\ energy_df = NoFrame
    /\ NoRunLocals

CallCalculateXirr ==
    /\ pc = "calculate_xirr"
    /\ LET result == calculate_xirr(inputs.cashflows, inputs.newton)
       IN  IF result.raised
           THEN /\ pc' = result.error
                /\ UNCHANGED metrics
           ELSE /\ pc' = "xirr_returned"
                /\ metrics' = [pre_tax_irr |-> result.value]
    /\ UNCHANGED <<inputs, itcLocals, cashflow_df, debtLocals, energy_df,
                   capex_df, grants_timing, depreciation_df, idc_amount,
                   reserves_df>>

NextXirr == CallCalculateXirr

SpecXirr == InitXirr /\ [][NextXirr]_vars

(***************************************************************************)
(* MetricsCalculator.calculate_xirr: properties                            *)
(***************************************************************************)
\* C19: calculate_xirr never raises; when the root finder fails (no
\* convergence or any other exception) the result is NaN, otherwise it is
\* the root, and the caller goes on with the result.
XirrNeverRaises ==
    /\ pc \in {"calculate_xirr", "xirr_returned"}
    /\ pc = "xirr_returned" =>
           metrics.pre_tax_irr =
               (IF inputs.newton.raised THEN NaN ELSE Num(inputs.newton.root))

\* The root finder did not converge and the call returned NaN.
XirrNeverRaisesWitness ==
    /\ pc = "xirr_returned"
    /\ inputs.newton.raised
    /\ inputs.newton.error = "RuntimeError"
    /\ metrics.pre_tax_irr.nan

(***************************************************************************)
(* SolarFinancialModel.run: the waterfall identities of the returned table *)
(***************************************************************************)
CodPeriod == inputs.project.construction_months - 1

TaxColumns ==
    {"federal_tax", "state_tax", "total_tax", "nol_utilized", "nol_balance"}

SecondPassColumns ==
    {"cfads", "fcfe", "equity_contribution", "equity_distribution"}

AfterSecondPass ==
    {"step9_dscr", "step10_terminal_value", "step11_metrics", "done"}

\* debt sizing: no cashflow table and so no tax exists yet, and the principal
\* is size_debt of the mean of total_revenue - total_opex over the operating
\* periods
DebtSizedPreTax ==
    pc = "step6_debt" /\ pc' # "step6_debt" =>
        /\ cashflow_df = NoFrame
        /\ debt_principal' =
               size_debt(inputs.financing,
                         Mean(CfadsEstimate(energy_df),
                              OperatingRows(energy_df)).value,
                         calculate_total_capex(inputs))

\* step 8 starts from a table whose total_tax is 0 throughout and which has no
\* other tax column, writes the tax columns, recomputes CFADS, FCFE and the
\* equity split from them, and leaves every other column as it was
SecondPassOverwrites ==
    pc = "step8_taxes" /\ pc' # "step8_taxes" =>
        /\ TaxColumns \cap DOMAIN cashflow_df = {"total_tax"}
        /\ \A i \in FrameRows(cashflow_df) : cashflow_df["total_tax"][i] = 0
        /\ DOMAIN cashflow_df' = DOMAIN cashflow_df \cup TaxColumns
        /\ \A c \in DOMAIN cashflow_df \ (TaxColumns \cup SecondPassColumns) :
               cashflow_df'[c] = cashflow_df[c]
        /\ \A i \in FrameRows(cashflow_df') :
               /\ cashflow_df'["cfads"][i] = Cfads(cashflow_df', i)
               /\ cashflow_df'["fcfe"][i] = Fcfe(cashflow_df', i)
               /\ cashflow_df'["equity_contribution"][i] =
                      EquityContribution(cashflow_df'["fcfe"][i])
               /\ cashflow_df'["equity_distribution"][i] =
                      EquityDistribution(cashflow_df'["fcfe"][i])

\* DSCR, terminal value and the metrics appear only after the second pass, and
\* the steps that write them leave CFADS and FCFE of the second pass alone
DerivedFromSecondPass ==
    /\ "dscr" \in DOMAIN cashflow_df' \ DOMAIN cashflow_df =>
           /\ pc = "step9_dscr"
           /\ \A i \in FrameRows(cashflow_df) :
                  cashflow_df'["dscr"][i] =
                      DscrRow(cashflow_df["total_debt_service"][i],
                              cashflow_df["cfads"][i])
    /\ "terminal_value" \in DOMAIN cashflow_df' \ DOMAIN cashflow_df =>
           pc = "step10_terminal_value"
    /\ metrics' # metrics =>
           pc = "step11_metrics" /\ metrics' = calculate_all_metrics(cashflow_df)
    /\ pc \in AfterSecondPass =>
           /\ cashflow_df'["cfads"] = cashflow_df["cfads"]
           /\ cashflow_df'["fcfe"] = cashflow_df["fcfe"]
           /\ cashflow_df'["total_tax"] = cashflow_df["total_tax"]

StageStep ==
    /\ DebtSizedPreTax
    /\ pc # "step6_debt" => debt_principal' = debt_principal
    /\ SecondPassOverwrites
    /\ DerivedFromSecondPass

\* C21: in run(), the debt principal is fixed from the pre-tax estimate before
\* any tax is computed and never changes afterwards; tax is computed only
\* after the pre-tax waterfall (total_tax = 0) is assembled; the second pass
\* overwrites CFADS, FCFE and the equity split and keeps EBITDA, EBIT, taxable
\* income, debt, depreciation and capex columns; DSCR, terminal value and the
\* metrics are computed only from the second-pass series.
StageOrdering == [][StageStep]_vars

\* A run past the second pass with debt sized from the pre-tax estimate and a
\* period in which tax is due, so that the second pass changed CFADS.
StageOrderingWitness ==
    /\ Returned
    /\ inputs.financing.sizing_method = "target_dscr"
    /\ debt_principal > 0
    /\ \E i \in FrameRows(cashflow_df) :
           /\ cashflow_df["total_tax"][i] > 0
           /\ cashflow_df["cfads"][i] < cashflow_df["ebitda"][i]

(***************************************************************************)
(* CashflowModel.add_terminal_value and its use in run()                   *)
(***************************************************************************)
ExitPeriod(exit_year) == inputs.project.construction_months + 12 * exit_year - 1

ExitYearsAt(i) ==
    {y \in {inputs.exit.buyout_years[k] :
                k \in 1 .. Len(inputs.exit.buyout_years)} : ExitPeriod(y) = i}

OperatingYearEbitda(cf, exit_year) ==
    SumCol([j \in FrameRows(cf) |->
               IF ExitPeriod(exit_year - 1) < j /\ j <= ExitPeriod(exit_year)
               THEN cf["ebitda"][j]
               ELSE 0])

\* C22: for every configured exit year Y whose exit period construction_months
\* + 12 Y - 1 is inside the horizon, terminal_value there is exit_multiple x
\* the EBITDA of the 12 periods of operating year Y; terminal_value is 0 in
\* every other period; and the equity_distribution of each period is that of
\* the second pass plus the period's terminal_value.
TerminalValueContract ==
    Returned =>
        \A i \in FrameRows(cashflow_df) :
            /\ \A y \in ExitYearsAt(i) :
                   cashflow_df["terminal_value"][i] =
                       inputs.exit.exit_multiple
                           * OperatingYearEbitda(cashflow_df, y)
            /\ ExitYearsAt(i) = {} => cashflow_df["terminal_value"][i] = 0
            /\ cashflow_df["equity_distribution"][i] =
                   EquityDistribution(cashflow_df["fcfe"][i])
                       + cashflow_df["terminal_value"][i]

\* A returned table with two exit years configured, of which the first lies
\* inside the horizon with a positive terminal value and the second outside.
TerminalValueContractWitness ==
    /\ Returned
    /\ Len(inputs.exit.buyout_years) = 2
    /\ ExitPeriod(2) \notin FrameRows(cashflow_df)
    /\ ExitPeriod(1) \in FrameRows(cashflow_df)
    /\ cashflow_df["terminal_value"][ExitPeriod(1)] > 0
    /\ cashflow_df["equity_distribution"][ExitPeriod(1)] >
           cashflow_df["fcfe"][ExitPeriod(1)]

\* Two exit years inside the horizon, each with its own terminal value.
TwoExitsWitness ==
    /\ Returned
    /\ ExitPeriod(2) \in FrameRows(cashflow_df)
    /\ cashflow_df["terminal_value"][ExitPeriod(1)] > 0
    /\ cashflow_df["terminal_value"][ExitPeriod(2)] > 0
    /\ cashflow_df["terminal_value"][ExitPeriod(2)]
           # cashflow_df["terminal_value"][ExitPeriod(1)]

(***************************************************************************)
(* CapExModel.create_capex_schedule: allocations add up to the breakdown   *)
(***************************************************************************)
CapexScheduled == pc \notin {"step1_energy", "step2_opex", "step3_revenue",
                             "step4_capex"}

\* C23: in the schedule of create_capex_schedule, each category's monthly
\* allocations add up to the category's total in the breakdown, for every
\* developer_fee_timing and every construction_months; the schedule's
\* total_capex therefore adds up to calculate_total_capex(include_idc=False),
\* and no allocation falls in an operating period.
CapexAllocationsAddUp ==
    CapexScheduled =>
        /\ \A cat \in CapexCategories :
               /\ SumCol(capex_df[cat]) = CapexBreakdown(inputs)[cat]
               /\ \A i \in FrameRows(capex_df) :
                      i >= inputs.project.construction_months =>
                          capex_df[cat][i] = 0
        /\ pc = "step5_tax_credits" =>
               SumCol(capex_df["total_capex"]) = calculate_total_capex(inputs)

(***************************************************************************)
(* DebtModel.calculate_reserves as called by run()                         *)
(***************************************************************************)
ReservesComputed ==
    pc \in {"step7_cashflow", "step8_taxes"} \cup AfterSecondPass

DsraTarget ==
    IF inputs.financing.use_debt
    THEN Times(Mean(debt_df["total_debt_service"], DebtServiceRows(debt_df)),
               inputs.financing.dsra_months)
    ELSE Num(0)

OmReserveTarget ==
    Times(Mean(energy_df["total_opex"], OperatingRows(energy_df)),
          inputs.financing.om_reserve_months)

\* C24: dsra_funding and om_reserve_funding are non-zero only in the COD
\* period, where they are dsra_months x the average monthly debt service (0
\* without debt) and om_reserve_months x the average monthly OpEx; the
\* balances are 0 before COD and equal to the funded amount in the COD period
\* and in every later period.  An average over no period is NaN, and so is
\* the amount sized from it.
ReservesFundedOnce ==
    ReservesComputed =>
        \A i \in FrameRows(reserves_df) :
            /\ i = CodPeriod =>
                   /\ reserves_df["dsra_funding"][i] = DsraTarget
                   /\ reserves_df["om_reserve_funding"][i] = OmReserveTarget
            /\ i # CodPeriod =>
                   /\ reserves_df["dsra_funding"][i] = Num(0)
                   /\ reserves_df["om_reserve_funding"][i] = Num(0)
            /\ i < CodPeriod =>
                   /\ reserves_df["dsra_balance"][i] = Num(0)
                   /\ reserves_df["om_reserve_balance"][i] = Num(0)
            /\ i >= CodPeriod =>
                   /\ reserves_df["dsra_balance"][i] = DsraTarget
                   /\ reserves_df["om_reserve_balance"][i] = OmReserveTarget

\* Reserves of a run with debt: both are funded with a positive amount at a
\* COD period that is not period 0, and held in the last period.
ReservesFundedOnceWitness ==
    /\ Returned
    /\ inputs.financing.use_debt
    /\ CodPeriod > 0
    /\ ~DsraTarget.nan /\ DsraTarget.value > 0
    /\ ~OmReserveTarget.nan /\ OmReserveTarget.value > 0
    /\ reserves_df["dsra_funding"][CodPeriod] = DsraTarget
    /\ reserves_df["om_reserve_balance"][total_months - 1] = OmReserveTarget

\* Reserves of a run without debt: the DSRA is never funded.
ReservesWithoutDebtWitness ==
    /\ Returned
    /\ ~inputs.financing.use_debt
    /\ reserves_df["dsra_funding"][CodPeriod] = Num(0)
    /\ reserves_df["om_reserve_funding"][CodPeriod].value > 0

(***************************************************************************)
(* DebtModel.calculate_idc and the IDC line of run()                       *)
(***************************************************************************)
IdcComputed == pc = "KeyError" \/ ReservesComputed

\* capex of a period as create_capex_schedule allocated it
ScheduledCapex(i) == SumOver(capex_df, CapexCategories, i)

CumulativeCapex(i) == SumCol([j \in FrameRows(capex_df) |->
                                 IF j <= i THEN ScheduledCapex(j) ELSE 0])

ConstructionCapex ==
    SumCol([j \in FrameRows(capex_df) |->
               IF j < inputs.project.construction_months
               THEN ScheduledCapex(j)
               ELSE 0])

RECURSIVE IdcThrough(_)
IdcThrough(i) ==
    IF i < 0
    THEN 0
    ELSE IdcThrough(i - 1)
         + Pct(MulDiv(debt_principal, CumulativeCapex(i), ConstructionCapex)
                   * InterestRateMonthly(inputs.financing),
               inputs.capex.idc_pct_of_debt_drawn)

\* C25: interest during construction is the sum over the construction periods
\* of (cumulative capex through the period / total construction capex) x
\* principal x monthly rate x idc_pct; it is 0 without debt, with a principal
\* <= 0 or with no construction capex; and run() adds the whole amount to
\* total_capex of the COD period and to no other period.
IdcContract ==
    IdcComputed =>
        /\ IF \/ ~inputs.financing.use_debt
              \/ debt_principal <= 0
              \/ ConstructionCapex = 0
           THEN idc_amount = 0
           ELSE idc_amount = IdcThrough(CodPeriod)
        /\ pc # "KeyError" =>
               \A i \in FrameRows(capex_df) :
                   capex_df["total_capex"][i] =
                       ScheduledCapex(i) + (IF i = CodPeriod THEN idc_amount ELSE 0)
        /\ pc \in {"step8_taxes"} \cup AfterSecondPass =>
               cashflow_df["total_capex"] = capex_df["total_capex"]

\* Two construction months with capex in both: interest accrues on part of
\* the principal in the first month and on all of it in the second, and the
\* sum is in the capex of the COD period of the returned table.
IdcContractWitness ==
    /\ Returned
    /\ CodPeriod = 1
    /\ ScheduledCapex(0) > 0
    /\ CumulativeCapex(0) < ConstructionCapex
    /\ idc_amount > debt_principal * InterestRateMonthly(inputs.financing)
    /\ cashflow_df["total_capex"][1] = ScheduledCapex(1) + idc_amount

\* The zero cases: no debt, no principal, no construction capex.
IdcZeroWitness ==
    /\ IdcComputed
    /\ inputs.financing.use_debt
    /\ debt_principal > 0
    /\ InterestRateMonthly(inputs.financing) > 0
    /\ ConstructionCapex = 0
    /\ idc_amount = 0

(***************************************************************************)
(* EnergyModel.calculate_monthly_energy: the year_in_operation column      *)
(***************************************************************************)
CeilDiv(a, b) == (a + b - 1) \div b

\* C26: year_in_operation splits the operating periods into model_years
\* consecutive blocks of exactly 12 periods: it is 0 during construction,
\* ceil(month_in_operation / 12) in an operating period, never above
\* model_years, and equal to the operating year calculate_depreciation uses
\* for the period, (period - construction_months) // 12 + 1.
YearInOperationPartition ==
    pc = "energy_returned" =>
        LET cm == inputs.project.construction_months
        IN  /\ \A i \in GridRows :
                  /\ i < cm => energy_df["year_in_operation"][i] = 0
                  /\ i >= cm =>
                        /\ energy_df["year_in_operation"][i] =
                               CeilDiv(energy_df["month_in_operation"][i], 12)
                        /\ energy_df["year_in_operation"][i] =
                               (i - cm) \div 12 + 1
                  /\ energy_df["year_in_operation"][i]
                         <= inputs.project.model_years
            /\ \A y \in 1 .. inputs.project.model_years :
                   Cardinality({i \in GridRows :
                                   energy_df["year_in_operation"][i] = y}) = 12

(***************************************************************************)
(* DebtModel.size_debt: range of the target-DSCR principal                 *)
(***************************************************************************)
\* C27: with the target-DSCR method and debt enabled, for every pre-tax CFADS
\* series, also one whose mean is zero or negative, and every total_capex >=
\* 0, the principal size_debt returns is between 0 and 0.80 x total_capex.
TargetDscrPrincipalInRange ==
    ( /\ pc = "size_debt_returned"
      /\ inputs.financing.use_debt
      /\ inputs.financing.sizing_method = "target_dscr" )
    => /\ 0 <= debt_principal
       /\ debt_principal * 100 <= inputs.total_capex * 80

(***************************************************************************)
(* RevenueModel: a state-program overlay in community-solar mode           *)
(***************************************************************************)
OverlayActive ==
    /\ inputs.project.mode = "community_solar"
    /\ \/ inputs.program.active = "ny_vder" /\ inputs.program.ny_vder.enabled
       \/ inputs.program.active = "nj_csep" /\ inputs.program.nj_csep.enabled

ProgramAdders(df, i) ==
    IF "nj_program_adders" \in DOMAIN df THEN df["nj_program_adders"][i] ELSE 0

\* C28: with NY VDER or NJ CSEP active and enabled in community-solar mode,
\* the program's value is counted once: total_revenue is REC revenue +
\* capacity revenue + the overriding subscriber revenue + program adders, and
\* does not also include the value-stack or bill-credit columns the
\* overriding subscriber revenue was derived from.
OverlayCountedOnce ==
    RevenueComputed /\ OverlayActive =>
        \A i \in FrameRows(energy_df) :
            energy_df["total_revenue"][i] =
                energy_df["rec_revenue"][i] + energy_df["capacity_revenue"][i]
                    + energy_df["subscriber_revenue"][i]
                    + ProgramAdders(energy_df, i)

(***************************************************************************)
(* TaxModel.calculate_taxes: the carryforward term                         *)
(***************************************************************************)
LossesThrough(t) ==
    SumCol([s \in TaxedRows |->
               IF s <= t /\ cashflow_df["taxable_income"][s] < 0
               THEN -cashflow_df["taxable_income"][s]
               ELSE 0])

NolUtilizedThrough(t) ==
    SumCol([s \in TaxedRows |->
               IF s <= t THEN cashflow_df["nol_utilized"][s] ELSE 0])

\* the scan of the same taxable income under another carryforward term
RescanWithTerm(years) ==
    calculate_taxes([inputs.taxes EXCEPT !.nol_carryforward_years = years],
                    [c \in {"taxable_income"} |-> cashflow_df["taxable_income"]])

\* C29: the NOL balance never expires: after every period t of the scan it is
\* the sum of the loss magnitudes of periods 0..t minus the sum of
\* nol_utilized of periods 0..t, and two scans that differ only in
\* nol_carryforward_years give the same tax and NOL columns.
NolNeverExpires ==
    pc = "taxes_returned" =>
        /\ \A t \in TaxedRows :
               cashflow_df["nol_balance"][t] =
                   LossesThrough(t) - NolUtilizedThrough(t)
        /\ \A years \in {r.nol_carryforward_years : r \in TaxRates} :
               \A c \in TaxColumns :
                   RescanWithTerm(years)[c] = cashflow_df[c]

\* A scan with a carryforward term of 0 years in which a loss of period 0 is
\* still used two or more periods later, after part of it was used before.
NolNeverExpiresWitness ==
    /\ pc = "taxes_returned"
    /\ inputs.taxes.nol_carryforward_years = 0
    /\ inputs.taxes.federal_tax_rate_pct > 0
    /\ \E t \in TaxedRows :
           /\ t >= 2
           /\ cashflow_df["taxable_income"][0] = -200
           /\ cashflow_df["nol_utilized"][t - 1] = 100
           /\ cashflow_df["nol_utilized"][t] = 100
           /\ cashflow_df["nol_balance"][t] = 0

(***************************************************************************)
(* SolarFinancialModel.run as one function of the inputs, for comparing    *)
(* the tables of two runs                                                  *)
(***************************************************************************)
RunTable(inp) ==
    LET energy == calculate_monthly_energy(inp.project, inp.sizing)
        revenue == calculate_revenue(inp, OpexStep(inp, energy))
        months == Cardinality(FrameRows(revenue))
        capex == create_capex_schedule(inp, months)
        grants == get_upfront_grants(inp)
        itc == calculate_itc(inp.tax_credits, get_depreciable_basis(inp),
                             grants[1])
        depreciation == calculate_depreciation(inp, itc[2], months)
        with_ptc == calculate_ptc(inp.tax_credits, revenue)
        principal ==
            size_debt(inp.financing,
                      Mean(CfadsEstimate(with_ptc), OperatingRows(with_ptc)).value,
                      calculate_total_capex(inp))
        debt == calculate_debt_service(inp.financing,
                                       inp.project.construction_months,
                                       principal, months)
        capex_with_idc ==
            AddIdcAtCod(capex, inp.project.construction_months,
                        calculate_idc(inp, capex, principal))
        reserves ==
            calculate_reserves(inp,
                Mean(with_ptc["total_opex"], OperatingRows(with_ptc)),
                Mean(debt["total_debt_service"], DebtServiceRows(debt)),
                months)
        first_pass == build_cashflow(inp, with_ptc, capex_with_idc, debt,
                                     depreciation, reserves, itc[1], grants[1],
                                     grants[2])
    IN  AddTerminalValueToDistribution(
            add_terminal_value(inp,
                calculate_dscr(SecondPass(inp, first_pass))))

\* RunTable composes the steps as the actions of run() do
RunTableIsTheRun == Returned => RunTable(inputs) = cashflow_df

\* the run to compare with: the same inputs without fees and acquisition costs
NoFees ==
    [mgmt_fee_usd_per_acct_month |-> 0, acquisition_cost_usd_per_subscriber |-> 0]

FeeBlindColumns == {"total_revenue", "total_opex", "ebitda", "cfads", "fcfe"}

\* C30: in community-solar mode cdg_mgmt_fees and cdg_acquisition_costs enter
\* neither total_revenue nor total_opex: two runs that differ only in
\* mgmt_fee_usd_per_acct_month or acquisition_cost_usd_per_subscriber have
\* the same total_revenue, total_opex, EBITDA, CFADS and FCFE in every period
\* (each run has those of the run without fees, hence any two have the same).
FeesLeaveCashflowAlone ==
    Returned /\ inputs.project.mode = "community_solar" =>
        /\ {"cdg_mgmt_fees", "cdg_acquisition_costs"}
               \cap (RevenueCols(cashflow_df) \cup OpexColumns) = {}
        /\ \A c \in FeeBlindColumns :
               RunTable(WithFees(inputs, NoFees))[c] = cashflow_df[c]

\* A returned community-solar run that charged fees and acquisition costs in
\* an operating period, and whose columns for them differ from those of the
\* run without fees.
FeesLeaveCashflowAloneWitness ==
    /\ Returned
    /\ inputs.project.mode = "community_solar"
    /\ inputs.community_solar.mgmt_fee_usd_per_acct_month = 5
    /\ \E i \in FrameRows(cashflow_df) :
           /\ cashflow_df["cdg_mgmt_fees"][i] > 0
           /\ cashflow_df["cdg_acquisition_costs"][i] > 0
           /\ cashflow_df["total_revenue"][i] > 0
    /\ RunTable(WithFees(inputs, NoFees))["cdg_mgmt_fees"]
           # cashflow_df["cdg_mgmt_fees"]

=============================================================================
